---- MODULE Spec2Model ----
(***************************************************************************)
(* Model of the hedtronix replication subsystem: the conflict resolver     *)
(* (hedtronix-sync/src/conflict.rs), the change journal                    *)
(* (hedtronix-db/src/repositories/sync_repository.rs), the sync engine     *)
(* (hedtronix-sync/src/engine.rs), the sync HTTP handlers                  *)
(* (hedtronix-api/src/handlers/sync.rs), the CRDTs of hedtronix-core,      *)
(* field encryption (hedtronix-crypto/src/encryption.rs) and the patient   *)
(* repository (hedtronix-db/src/repositories/patient_repository.rs).       *)
(***************************************************************************)
EXTENDS Integers, Sequences, FiniteSets, TLC

(***************************************************************************)
(* Bounds of the model.                                                    *)
(***************************************************************************)
\* wall-clock instants are 0..MaxTime
MaxTime == 2
\* number of change ids (uuid values) the model can hand out
MaxIds == 3
\* the journal clock runs over the days 0..MaxDay and then jumps a retention
\* period ahead, to day RetentionDays + MaxDay
MaxDay == 1
\* rows the journal holds at most
MaxRows == 2
\* record_sync_error is followed up to this retry_count
MaxRetry == 1
\* largest LIMIT a caller passes to get_pending_changes
MaxLimit == 2
\* longest id list a caller passes to mark_synced
MaxBatch == 2
\* width of a version-vector counter in bits, standing for the 64 of u64
CounterBits == 2

(***************************************************************************)
(* Program constants.                                                      *)
(***************************************************************************)
\* cleanup_old_changes: chrono::Duration::days(7)
RetentionDays == 7
\* pull_changes: req.limit.unwrap_or(100); apply_single_change: get_pending_changes(100)
DefaultLimit == 100

(***************************************************************************)
(* Value domains.                                                          *)
(***************************************************************************)
Devices == {"A", "B"}
Keys == {"phone", "email"}
Times == 0 .. MaxTime
Ids == 1 .. MaxIds

\* ChangeOperation (crdt.rs): Create | Update | Delete
ChangeOperation == {"Create", "Update", "Delete"}

\* serde_json::Value, as far as the resolver and the journal look at it:
\* an object (a map from top-level key to value) or a non-object (Null).
JsonNull == [kind |-> "null", fields |-> <<>>]
JsonObject(f) == [kind |-> "object", fields |-> f]
ObjectsOver(values) == {JsonObject(f) : f \in UNION {[S -> values] : S \in SUBSET Keys}}

\* Value::as_object: Some(map) for an object, None otherwise
as_object(v) == v.kind = "object"

\* types.rs VersionVector: HashMap<String, u64>; a missing key reads as 0
VersionVector_new == <<>>
VersionVector_get(v, d) == IF d \in DOMAIN v THEN v[d] ELSE 0
\* u64::MAX at the width of the model
U64_MAX == 2 ^ CounterBits - 1
\* `*counter += 1` where the addition is not checked: the sum wraps
VersionVector_increment(v, d) ==
    [e \in DOMAIN v \cup {d} |->
        IF e = d THEN (VersionVector_get(v, d) + 1) % (U64_MAX + 1) ELSE v[e]]

\* the vectors the tracking helpers and their merges produce: every entry is 1
TrackedVersions == UNION {[S -> {1}] : S \in SUBSET Devices}

Max(a, b) == IF a >= b THEN a ELSE b

\* types.rs VersionVector::merge
VersionVector_merge(a, b) ==
    [e \in DOMAIN a \cup DOMAIN b |->
        IF e \in DOMAIN b THEN Max(VersionVector_get(a, e), b[e]) ELSE a[e]]

(***************************************************************************)
(* crdt/version_vector.rs VersionVector: HashMap<Uuid, u64>.               *)
(***************************************************************************)
\* VersionVector::get
get(v, d) == IF d \in DOMAIN v THEN v[d] ELSE 0

\* VersionVector::increment where the addition is not checked: entry(d).or_insert(0)
\* and `*counter += 1`, which wraps
increment(v, d) ==
    [e \in DOMAIN v \cup {d} |-> IF e = d THEN (get(v, d) + 1) % (U64_MAX + 1) ELSE v[e]]

\* merge with a slip: an entry of other overwrites the entry of self
merge_overwrite(a, b) ==
    [e \in DOMAIN a \cup DOMAIN b |-> IF e \in DOMAIN b THEN b[e] ELSE a[e]]

\* VersionVector::merge: for every entry of other, entry(d).or_insert(0) and max
merge(a, b) ==
    [e \in DOMAIN a \cup DOMAIN b |-> IF e \in DOMAIN b THEN Max(get(a, e), b[e]) ELSE a[e]]

\* happens_before with a slip: without the second loop, over the devices that
\* only other has
happens_before_own_keys(a, b) ==
    /\ \A d \in DOMAIN a : ~(a[d] > get(b, d))
    /\ \E d \in DOMAIN a : a[d] < get(b, d)

\* VersionVector::happens_before: false as soon as an entry of self is larger;
\* strictly_less is set by a smaller entry of self, or by an entry of other that
\* is above 0 and has no key in self
happens_before(a, b) ==
    /\ \A d \in DOMAIN a : ~(a[d] > get(b, d))
    /\ \/ \E d \in DOMAIN a : a[d] < get(b, d)
       \/ \E d \in DOMAIN b : d \notin DOMAIN a /\ b[d] > 0

\* VersionVector::equals: derived PartialEq, the equality of the two HashMaps
equals(a, b) == a = b

\* VersionVector::is_concurrent
is_concurrent(a, b) == ~happens_before(a, b) /\ ~happens_before(b, a) /\ a # b

(***************************************************************************)
(* Conflict resolver (conflict.rs).                                        *)
(***************************************************************************)
KeepLocal == [kind |-> "KeepLocal"]
KeepRemote == [kind |-> "KeepRemote"]
Merge(c) == [kind |-> "Merge", change |-> c]
NoResult == [kind |-> "none"]

\* merge_updates with a slip: the merged change takes the local timestamp and
\* keeps only the local fields
merge_updates_local_only(l, r, new_id) ==
    IF as_object(l.data) /\ as_object(r.data)
    THEN IF DOMAIN l.data.fields \cap DOMAIN r.data.fields = {}
         THEN Merge([id |-> new_id,
                     entity_type |-> l.entity_type,
                     entity_id |-> l.entity_id,
                     operation |-> "Update",
                     data |-> l.data,
                     timestamp |-> l.timestamp,
                     device_id |-> l.device_id \o "_merged",
                     version |-> l.version])
         ELSE IF l.timestamp >= r.timestamp THEN KeepLocal ELSE KeepRemote
    ELSE IF l.timestamp >= r.timestamp THEN KeepLocal ELSE KeepRemote

\* ConflictResolver::merge_updates; new_id is the value Id::new_v4() returns
merge_updates(l, r, new_id) ==
    IF as_object(l.data) /\ as_object(r.data)
    THEN LET local_keys == DOMAIN l.data.fields
             remote_keys == DOMAIN r.data.fields
             overlap == local_keys \cap remote_keys
         IN  IF overlap = {}
             THEN LET merged == [k \in local_keys \cup remote_keys |->
                                    IF k \in remote_keys THEN r.data.fields[k]
                                    ELSE l.data.fields[k]]
                  IN  Merge([id |-> new_id,
                             entity_type |-> l.entity_type,
                             entity_id |-> l.entity_id,
                             operation |-> "Update",
                             data |-> JsonObject(merged),
                             timestamp |-> Max(l.timestamp, r.timestamp),
                             device_id |-> l.device_id \o "_merged",
                             version |-> l.version])
             ELSE IF l.timestamp >= r.timestamp THEN KeepLocal ELSE KeepRemote
    ELSE IF l.timestamp >= r.timestamp THEN KeepLocal ELSE KeepRemote

\* resolve with a slip: without the two delete arms, so that a Delete is
\* compared by timestamp like any other pair
resolve_without_delete_bias(l, r, new_id) ==
    IF l.operation = "Update" /\ r.operation = "Update"
    THEN merge_updates(l, r, new_id)
    ELSE IF l.timestamp >= r.timestamp THEN KeepLocal ELSE KeepRemote

\* ResolutionResult::Conflict: needs manual resolution
Conflict == [kind |-> "Conflict"]

\* resolve with a slip: the arm of a local Create against a remote Update keeps
\* the local Create
resolve_create_over_update(l, r, new_id) ==
    IF l.operation = "Delete" THEN KeepLocal
    ELSE IF r.operation = "Delete" THEN KeepRemote
    ELSE IF l.operation = "Create" /\ r.operation = "Create"
         THEN IF l.timestamp >= r.timestamp THEN KeepLocal ELSE KeepRemote
    ELSE IF l.operation = "Update" /\ r.operation = "Update"
         THEN merge_updates(l, r, new_id)
    ELSE KeepLocal

\* ConflictResolver::resolve
resolve(l, r, new_id) ==
    IF l.operation = "Delete" THEN KeepLocal
    ELSE IF r.operation = "Delete" THEN KeepRemote
    ELSE IF l.operation = "Create" /\ r.operation = "Create"
         THEN IF l.timestamp >= r.timestamp THEN KeepLocal ELSE KeepRemote
    ELSE IF l.operation = "Update" /\ r.operation = "Update"
         THEN merge_updates(l, r, new_id)
    ELSE IF l.operation = "Create" /\ r.operation = "Update" THEN KeepRemote
    ELSE KeepLocal

\* Id::new_v4(): a random 122-bit value, taken to differ from the ids in use.
\* The code only ever tests ids for equality, so the model hands them out in
\* increasing order: the set holds the one id drawn, or nothing when Ids is used up.
new_v4(used) ==
    IF Ids \ used = {} THEN {}
    ELSE {CHOOSE i \in Ids \ used : \A j \in Ids \ used : i <= j}

(***************************************************************************)
(* State.                                                                  *)
(***************************************************************************)
VARIABLES
    local,       \* resolver input: the pending local change
    remote,      \* resolver input: the inbound remote change
    result,      \* what the replica holding `local` got from resolve(local, remote)
    peer_result, \* what the replica holding `remote` got from resolve(remote, local)
    sync_queue,  \* table sync_queue: change id -> row
    allocated,   \* the ids Id::new_v4() has handed out on this device
    now,         \* chrono::Utc::now(), in days
    op_result,   \* what the last journal operation returned to its caller
    sess,        \* the HTTP requests in flight: request slot -> handler state
    sync_metadata, \* table sync_metadata: the value of key last_sync_time, or Null
    patients,    \* table patients: patient id -> row
    self_vv,     \* version-vector operations: the receiver
    other_vv,    \* version-vector operations: the argument
    vv_out,      \* what the last version-vector operation did
    crdt_a,      \* CRDT operations: replica a (the receiver)
    crdt_b,      \* CRDT operations: replica b (the argument)
    crdt_c,      \* CRDT operations: replica c
    crdt_out,    \* what the last CRDT operation did
    rng,         \* SystemRandom: the nonces it has filled in so far
    blob,        \* field encryption: the stored blob at hand
    enc_out,     \* what the last field-encryption operation did
    creating,    \* create_patient requests in flight: request slot -> the MRN generated
    repo_out     \* what the last patient-repository query returned

resolver_vars == <<local, remote, result, peer_result>>
journal_vars == <<sync_queue, allocated, now, op_result, sync_metadata>>
vector_vars == <<self_vv, other_vv, vv_out>>
crdt_vars == <<crdt_a, crdt_b, crdt_c, crdt_out>>
crypto_vars == <<rng, blob, enc_out>>
repo_vars == <<creating, repo_out>>
vars == <<local, remote, result, peer_result, sync_queue, allocated, now, op_result,
         sess, sync_metadata, patients, self_vv, other_vv, vv_out,
         crdt_a, crdt_b, crdt_c, crdt_out, rng, blob, enc_out, creating, repo_out>>

\* the device this process runs on (AppState::device_id)
ThisDevice == "A"
Entities == {1}
Days == (0 .. MaxDay) \cup {RetentionDays + MaxDay}
\* request slots: axum runs the handlers of concurrent requests in parallel
Sessions == {"s1", "s2"}

Null == -1
NoError == "NULL"
NoOp == [op |-> "none", ok |-> TRUE]

\* SyncEngine::new: state Idle, last_sync None
SyncEngine_new == [state |-> "Idle", last_sync |-> Null]

\* what a handler answers: the fields of PullResponse, PushResponse and SyncStatus,
\* and what apply_remote_changes did with each pushed change
NoResponse ==
    [changes |-> <<>>, acknowledged |-> <<>>, rejected |-> <<>>, applied |-> <<>>,
     state |-> "none", pending_changes |-> 0, last_sync |-> Null]

\* a request slot with no request in it
NoRequest ==
    [handler |-> "none", pc |-> "idle", engine |-> SyncEngine_new, changes |-> <<>>,
     outcome |-> "none", response |-> NoResponse]

JournalIdle ==
    /\ sync_queue = <<>>
    /\ allocated = {}
    /\ now = 0
    /\ op_result = NoOp
    /\ sess = [s \in Sessions |-> NoRequest]
    /\ sync_metadata = Null
    /\ patients = <<>>

\* no version-vector operation has run
NoVectorOp == [op |-> "none"]
VectorIdle ==
    /\ self_vv = <<>>
    /\ other_vv = <<>>
    /\ vv_out = NoVectorOp

\* no CRDT operation has run
NoCrdtOp == [op |-> "none"]
CrdtIdle ==
    /\ crdt_a = <<>>
    /\ crdt_b = <<>>
    /\ crdt_c = <<>>
    /\ crdt_out = NoCrdtOp

\* no field has been encrypted
\* the empty text: it decodes to no bytes
NoBody == [key |-> [len |-> 0, material |-> 0], nonce |-> 0, plaintext |-> <<>>,
           intact |-> FALSE]
NoBlob == [base64 |-> TRUE, len |-> 0, nonce |-> 0, body |-> NoBody]
NoCryptoOp == [op |-> "none"]
CryptoIdle ==
    /\ rng = {}
    /\ blob = NoBlob
    /\ enc_out = NoCryptoOp

\* no medical record number: the None of an Option<String>
NoMrn == <<>>
\* no patient: the None of an Option<Patient>
NoPatient == [id |-> 0, medical_record_number |-> NoMrn, active |-> FALSE]

\* no patient request is in flight and no query has run
NoRepoOp == [op |-> "none"]
RepoIdle ==
    /\ creating = [s \in Sessions |-> NoMrn]
    /\ repo_out = NoRepoOp

(***************************************************************************)
(* The resolver as a pure function: Init draws the two changes.            *)
(***************************************************************************)
\* the changes of one entity a device can hold: a Delete carries {} (Change::delete),
\* a Create an object, an Update any JSON value
ChangesOf(id, values) ==
    {[id |-> id, entity_type |-> "Patient", entity_id |-> 1, operation |-> op.o,
      data |-> op.d, timestamp |-> t, device_id |-> d, version |-> v] :
        op \in ({[o |-> "Delete", d |-> JsonObject(<<>>)]}
                \cup {[o |-> "Create", d |-> x] : x \in ObjectsOver(values)}
                \cup {[o |-> "Update", d |-> x] : x \in ObjectsOver(values) \cup {JsonNull}}),
        t \in Times, d \in Devices, v \in TrackedVersions}

ResolveInit ==
    /\ local \in ChangesOf(1, {"l"})
    /\ remote \in ChangesOf(2, {"r"})
    /\ result = NoResult
    /\ peer_result = NoResult
    /\ JournalIdle
    /\ VectorIdle
    /\ CrdtIdle
    /\ CryptoIdle
    /\ RepoIdle

\* the replica that holds `local` as its pending change receives `remote`
ResolveLocal ==
    /\ result = NoResult
    /\ \E new_id \in new_v4({local.id, remote.id}) :
          result' = resolve(local, remote, new_id)
    /\ UNCHANGED <<local, remote, peer_result, sync_queue, allocated, now, op_result, sess, sync_metadata, patients,
                 self_vv, other_vv, vv_out, crdt_vars, crypto_vars, repo_vars>>

\* the replica that holds `remote` as its pending change receives `local`
ResolvePeer ==
    /\ peer_result = NoResult
    /\ \E new_id \in new_v4({local.id, remote.id}) :
          peer_result' = resolve(remote, local, new_id)
    /\ UNCHANGED <<local, remote, result, sync_queue, allocated, now, op_result, sess, sync_metadata, patients,
                 self_vv, other_vv, vv_out, crdt_vars, crypto_vars, repo_vars>>

ResolveNext == ResolveLocal \/ ResolvePeer

ResolveSpec == ResolveInit /\ [][ResolveNext]_vars

(***************************************************************************)
(* Change construction (crdt.rs, impl Change).                             *)
(***************************************************************************)
\* Change::create / update / delete: a fresh id, the current time and a fresh
\* version vector incremented once for the device
Change_new(id, entity_id, operation, data, device_id, t) ==
    [id |-> id, entity_type |-> "Patient", entity_id |-> entity_id,
     operation |-> operation, data |-> data, timestamp |-> t,
     device_id |-> device_id,
     version |-> VersionVector_increment(VersionVector_new, device_id)]

Change_create(id, entity_id, data, device_id, t) ==
    Change_new(id, entity_id, "Create", data, device_id, t)
Change_update(id, entity_id, data, device_id, t) ==
    Change_new(id, entity_id, "Update", data, device_id, t)
Change_delete(id, entity_id, device_id, t) ==
    Change_new(id, entity_id, "Delete", JsonObject(<<>>), device_id, t)

(***************************************************************************)
(* Change journal (sync_repository.rs) over table sync_queue.              *)
(***************************************************************************)
\* queue_change: the text stored in column operation
operation_to_sql(o) ==
    IF o = "Create" THEN "CREATE" ELSE IF o = "Update" THEN "UPDATE" ELSE "DELETE"
\* get_pending_changes: the operation read back, Update for any other text
operation_from_sql(t) ==
    IF t = "CREATE" THEN "Create" ELSE IF t = "DELETE" THEN "Delete" ELSE "Update"

\* The TEXT columns hold what the printers write, and get_pending_changes parses
\* them back; a text is a record tagged with its format.
\* Uuid::to_string
Uuid_to_string(id) == [uuid |-> id]
\* the id Id::new_v4() gives when a text does not parse: one no change carries
FallbackId == 0
\* Id::parse_str(&text).unwrap_or_else(|_| Id::new_v4())
Id_parse_str(text) == IF DOMAIN text = {"uuid"} THEN text.uuid ELSE FallbackId
\* Value::to_string and serde_json::to_string: the JSON text of a value
Json_to_string(v) == [json |-> v]
\* serde_json::from_str(&text).unwrap_or(default)
Json_from_str(text, default) == IF DOMAIN text = {"json"} THEN text.json ELSE default
\* DateTime::to_rfc3339
to_rfc3339(t) == [rfc3339 |-> t]
\* DateTime::parse_from_rfc3339(&text) ... .unwrap_or_else(|_| Utc::now())
parse_from_rfc3339(text) == IF DOMAIN text = {"rfc3339"} THEN text.rfc3339 ELSE now

\* the row INSERT INTO sync_queue writes: synced 0, the other columns at their defaults
row_of_change(c) ==
    [id |-> Uuid_to_string(c.id), entity_type |-> c.entity_type,
     entity_id |-> Uuid_to_string(c.entity_id),
     operation |-> operation_to_sql(c.operation), data_json |-> Json_to_string(c.data),
     timestamp |-> to_rfc3339(c.timestamp), device_id |-> c.device_id,
     version_json |-> Json_to_string(c.version),
     synced |-> 0, synced_at |-> Null, retry_count |-> 0, error_message |-> NoError]

\* get_pending_changes, had its match on the operation text no arm for "DELETE"
change_of_row_without_delete(r) ==
    [id |-> Id_parse_str(r.id), entity_type |-> r.entity_type,
     entity_id |-> Id_parse_str(r.entity_id),
     operation |-> IF r.operation = "CREATE" THEN "Create" ELSE "Update",
     data |-> Json_from_str(r.data_json, JsonNull),
     timestamp |-> parse_from_rfc3339(r.timestamp), device_id |-> r.device_id,
     version |-> Json_from_str(r.version_json, VersionVector_new)]

\* the Change get_pending_changes builds from a row
change_of_row(r) ==
    [id |-> Id_parse_str(r.id), entity_type |-> r.entity_type,
     entity_id |-> Id_parse_str(r.entity_id),
     operation |-> operation_from_sql(r.operation),
     data |-> Json_from_str(r.data_json, JsonNull),
     timestamp |-> parse_from_rfc3339(r.timestamp), device_id |-> r.device_id,
     version |-> Json_from_str(r.version_json, VersionVector_new)]

\* schema of sync_queue: id TEXT PRIMARY KEY, so an INSERT of a present id is refused
primary_key_free(q, id) == id \notin DOMAIN q

\* SyncRepository::queue_change: a plain INSERT; db_ok is whether the lock and the
\* statement itself succeed
queue_change(q, c, db_ok) ==
    IF db_ok /\ primary_key_free(q, c.id)
    THEN [ok |-> TRUE,
          queue |-> [i \in DOMAIN q \cup {c.id} |->
                        IF i = c.id THEN row_of_change(c) ELSE q[i]]]
    ELSE [ok |-> FALSE, queue |-> q]

\* the elements of a sequence
Range(f) == {f[k] : k \in DOMAIN f}

\* SyncRepository::mark_synced: one UPDATE per id of the slice, in a loop without a
\* transaction; n is the number of UPDATEs that ran before the loop ended (all of
\* them when the call returns Ok)
mark_synced(q, ids, n, t) ==
    [ok |-> n = Len(ids),
     queue |-> [i \in DOMAIN q |->
                   IF \E k \in 1 .. n : ids[k] = i
                   THEN [q[i] EXCEPT !.synced = 1, !.synced_at = t]
                   ELSE q[i]]]

\* SyncRepository::record_sync_error
record_sync_error(q, id, error) ==
    [i \in DOMAIN q |->
        IF i = id THEN [q[i] EXCEPT !.error_message = error,
                                    !.retry_count = q[i].retry_count + 1]
        ELSE q[i]]

\* SyncRepository::pending_count
pending_count(q) == Cardinality({i \in DOMAIN q : q[i].synced = 0})

\* cleanup_old_changes, had the DELETE compared with synced_at <= cutoff
cleanup_old_changes_inclusive(q, t) ==
    {i \in DOMAIN q : q[i].synced = 1 /\ q[i].synced_at # Null
                       /\ q[i].synced_at <= t - RetentionDays}

\* SyncRepository::cleanup_old_changes: the ids DELETE removes
cleanup_old_changes(q, t) ==
    {i \in DOMAIN q : q[i].synced = 1 /\ q[i].synced_at # Null
                       /\ q[i].synced_at < t - RetentionDays}

\* SyncRepository::get_pending_changes: WHERE synced = 0 ORDER BY timestamp ASC
\* LIMIT ?. SQL leaves the order of rows with equal timestamps open, so every
\* order of the pending rows that is ascending in timestamp is a possible answer.
Min(a, b) == IF a <= b THEN a ELSE b
\* ORDER BY on the timestamp texts: texts of UTC instants order as the instants do
rfc3339_le(a, b) == a.rfc3339 <= b.rfc3339
pending_orders(q) ==
    LET P == {i \in DOMAIN q : q[i].synced = 0}
        n == Cardinality(P)
    IN  {s \in [1 .. n -> P] :
            /\ \A i, j \in 1 .. n : i # j => s[i] # s[j]
            /\ \A i, j \in 1 .. n : i < j => rfc3339_le(q[s[i]].timestamp, q[s[j]].timestamp)}
get_pending_changes(q, limit) ==
    {[k \in 1 .. Min(limit, Len(s)) |-> change_of_row(q[s[k]])] : s \in pending_orders(q)}

(***************************************************************************)
(* Journal operations as actions.                                          *)
(***************************************************************************)
TrackedPayloads == {JsonObject([email |-> "l"])}

\* SyncEngine::queue_change of a change just built by a tracking helper
Track(c) ==
    /\ Cardinality(DOMAIN sync_queue) < MaxRows
    /\ LET r == queue_change(sync_queue, c, TRUE)
       IN  /\ sync_queue' = r.queue
           /\ op_result' = [op |-> "queue_change", ok |-> r.ok, id |-> c.id, again |-> FALSE,
                            change |-> c]
    /\ allocated' = allocated \cup {c.id}
    /\ UNCHANGED <<local, remote, result, peer_result, now, sess, sync_metadata, patients,
                 self_vv, other_vv, vv_out, crdt_vars, crypto_vars, repo_vars>>

\* SyncEngine::track_create
track_create ==
    \E id \in new_v4(allocated), e \in Entities :
        Track(Change_create(id, e, JsonObject([phone |-> "l"]), ThisDevice, now))

\* SyncEngine::track_update
track_update ==
    \E id \in new_v4(allocated), e \in Entities, d \in TrackedPayloads :
        Track(Change_update(id, e, d, ThisDevice, now))

\* SyncEngine::track_delete
track_delete ==
    \E id \in new_v4(allocated), e \in Entities :
        Track(Change_delete(id, e, ThisDevice, now))

\* SyncEngine::queue_change called again with a change the journal already holds
QueueAgain ==
    /\ \E i \in DOMAIN sync_queue :
          LET c == change_of_row(sync_queue[i])
              r == queue_change(sync_queue, c, TRUE)
          IN  /\ sync_queue' = r.queue
              /\ op_result' = [op |-> "queue_change", ok |-> r.ok, id |-> c.id, again |-> TRUE,
                               change |-> c]
    /\ UNCHANGED <<local, remote, result, peer_result, allocated, now, sess, sync_metadata, patients,
                 self_vv, other_vv, vv_out, crdt_vars, crypto_vars, repo_vars>>

\* SyncEngine::mark_synced with any ids: present or absent, pending or synced
MarkSynced ==
    /\ \E k \in 0 .. MaxBatch : \E ids \in [1 .. k -> Ids] : \E n \in 0 .. k :
          LET r == mark_synced(sync_queue, ids, n, now)
          IN  /\ sync_queue' = r.queue
              /\ op_result' = [op |-> "mark_synced", ok |-> r.ok, ids |-> Range(ids)]
    /\ UNCHANGED <<local, remote, result, peer_result, allocated, now, sess, sync_metadata, patients,
                 self_vv, other_vv, vv_out, crdt_vars, crypto_vars, repo_vars>>

\* SyncRepository::record_sync_error for a rejected change
RecordSyncError ==
    /\ \E i \in Ids :
          /\ i \in DOMAIN sync_queue => sync_queue[i].retry_count < MaxRetry
          /\ sync_queue' = record_sync_error(sync_queue, i, "rejected")
          /\ op_result' = [op |-> "record_sync_error", ok |-> TRUE, id |-> i]
    /\ UNCHANGED <<local, remote, result, peer_result, allocated, now, sess, sync_metadata, patients,
                 self_vv, other_vv, vv_out, crdt_vars, crypto_vars, repo_vars>>

\* SyncRepository::cleanup_old_changes
CleanupOldChanges ==
    /\ LET gone == cleanup_old_changes(sync_queue, now)
       IN  /\ sync_queue' = [i \in DOMAIN sync_queue \ gone |-> sync_queue[i]]
           /\ op_result' = [op |-> "cleanup_old_changes", ok |-> TRUE,
                            deleted |-> Cardinality(gone)]
    /\ UNCHANGED <<local, remote, result, peer_result, allocated, now, sess, sync_metadata, patients,
                 self_vv, other_vv, vv_out, crdt_vars, crypto_vars, repo_vars>>

\* SyncRepository::get_pending_changes
GetPendingChanges ==
    /\ \E limit \in 0 .. MaxLimit : \E cs \in get_pending_changes(sync_queue, limit) :
          op_result' = [op |-> "get_pending_changes", ok |-> TRUE,
                        limit |-> limit, changes |-> cs]
    /\ UNCHANGED <<local, remote, result, peer_result, sync_queue, allocated, now, sess, sync_metadata, patients,
                 self_vv, other_vv, vv_out, crdt_vars, crypto_vars, repo_vars>>

\* SyncRepository::pending_count
PendingCount ==
    /\ op_result' = [op |-> "pending_count", ok |-> TRUE, count |-> pending_count(sync_queue)]
    /\ UNCHANGED <<local, remote, result, peer_result, sync_queue, allocated, now, sess, sync_metadata, patients,
                 self_vv, other_vv, vv_out, crdt_vars, crypto_vars, repo_vars>>

\* a day passes
Tick ==
    /\ now < MaxDay
    /\ now' = now + 1
    /\ UNCHANGED <<local, remote, result, peer_result, sync_queue, allocated, op_result, sess, sync_metadata, patients,
                 self_vv, other_vv, vv_out, crdt_vars, crypto_vars, repo_vars>>

\* the retention period passes
RetentionPasses ==
    /\ now <= MaxDay
    /\ now' = RetentionDays + MaxDay
    /\ UNCHANGED <<local, remote, result, peer_result, sync_queue, allocated, op_result, sess, sync_metadata, patients,
                 self_vv, other_vv, vv_out, crdt_vars, crypto_vars, repo_vars>>

\* SyncRepository::set_last_sync_time -> set_metadata("last_sync_time", time):
\* INSERT OR REPLACE of the one row of that key
set_last_sync_time(meta, time, db_ok) ==
    IF db_ok THEN [ok |-> TRUE, meta |-> time] ELSE [ok |-> FALSE, meta |-> meta]

\* SyncRepository::get_last_sync_time: None when the key is absent
get_last_sync_time(meta) == meta

\* SyncEngine::set_last_sync: the metadata first, and on success the field
set_last_sync(engine, meta, time, db_ok) ==
    LET w == set_last_sync_time(meta, time, db_ok)
    IN  [ok |-> w.ok, meta |-> w.meta,
         engine |-> IF w.ok THEN [engine EXCEPT !.last_sync = time] ELSE engine]

\* SyncEngine::get_last_sync: the field when it is set, else the metadata
get_last_sync(engine, meta) ==
    IF engine.last_sync # Null THEN engine.last_sync ELSE get_last_sync_time(meta)

\* SyncEngine::set_last_sync called on a new engine with the current time, and
\* SyncEngine::get_last_sync on that engine afterwards
SetLastSync ==
    /\ \E db_ok \in BOOLEAN :
          LET r == set_last_sync(SyncEngine_new, sync_metadata, now, db_ok)
          IN  /\ sync_metadata' = r.meta
              /\ op_result' = [op |-> "set_last_sync", ok |-> r.ok,
                               last_sync |-> get_last_sync(r.engine, r.meta)]
    /\ UNCHANGED <<local, remote, result, peer_result, sync_queue, allocated, now, sess, patients,
                 self_vv, other_vv, vv_out, crdt_vars, crypto_vars, repo_vars>>

Init ==
    /\ local = Change_delete(1, 1, "A", 0)
    /\ remote = Change_delete(2, 1, "B", 0)
    /\ result = NoResult
    /\ peer_result = NoResult
    /\ JournalIdle
    /\ VectorIdle
    /\ CrdtIdle
    /\ CryptoIdle
    /\ RepoIdle

\* the journal under any sequence of calls of its operations
JournalNext ==
    \/ track_create
    \/ track_update
    \/ track_delete
    \/ QueueAgain
    \/ MarkSynced
    \/ RecordSyncError
    \/ CleanupOldChanges
    \/ GetPendingChanges
    \/ PendingCount
    \/ SetLastSync
    \/ Tick
    \/ RetentionPasses

JournalSpec == Init /\ [][JournalNext]_vars

(***************************************************************************)
(* Version vectors as values: Init draws two vectors, the actions apply    *)
(* the operations of crdt/version_vector.rs and of types.rs to them.       *)
(***************************************************************************)
VVDevices == {"d1", "d2"}
\* every value of the type: a key may be absent or hold any counter, 0 included
\* (the map is a public field and is deserialized from what a peer sends)
Vectors == UNION {[S -> 0 .. U64_MAX] : S \in SUBSET VVDevices}

VectorOp(op, receiver, argument, device, outcome, after, value) ==
    [op |-> op, receiver |-> receiver, argument |-> argument, device |-> device,
     outcome |-> outcome, after |-> after, value |-> value]

VVInit ==
    /\ local = Change_delete(1, 1, "A", 0)
    /\ remote = Change_delete(2, 1, "B", 0)
    /\ result = NoResult
    /\ peer_result = NoResult
    /\ JournalIdle
    /\ self_vv \in Vectors
    /\ other_vv \in Vectors
    /\ vv_out = NoVectorOp
    /\ CrdtIdle
    /\ CryptoIdle
    /\ RepoIdle

\* self.increment(d) of crdt/version_vector.rs. At u64::MAX the addition
\* overflows: a build with overflow checks panics before the counter is written,
\* a build without them wraps the counter to 0.
Increment ==
    /\ \E d \in VVDevices, overflow_checks \in BOOLEAN :
          IF get(self_vv, d) = U64_MAX /\ overflow_checks
          THEN /\ self_vv' = self_vv
               /\ vv_out' = VectorOp("increment", self_vv, other_vv, d, "panic", self_vv, FALSE)
          ELSE /\ self_vv' = increment(self_vv, d)
               /\ vv_out' = VectorOp("increment", self_vv, other_vv, d, "returned",
                                     increment(self_vv, d), FALSE)
    /\ UNCHANGED <<local, remote, result, peer_result, sync_queue, allocated, now, op_result,
                   sess, sync_metadata, patients, other_vv, crdt_vars, crypto_vars, repo_vars>>

\* self.increment(d) of types.rs
TypesIncrement ==
    /\ \E d \in VVDevices, overflow_checks \in BOOLEAN :
          IF VersionVector_get(self_vv, d) = U64_MAX /\ overflow_checks
          THEN /\ self_vv' = self_vv
               /\ vv_out' = VectorOp("types_increment", self_vv, other_vv, d, "panic",
                                     self_vv, FALSE)
          ELSE /\ self_vv' = VersionVector_increment(self_vv, d)
               /\ vv_out' = VectorOp("types_increment", self_vv, other_vv, d, "returned",
                                     VersionVector_increment(self_vv, d), FALSE)
    /\ UNCHANGED <<local, remote, result, peer_result, sync_queue, allocated, now, op_result,
                   sess, sync_metadata, patients, other_vv, crdt_vars, crypto_vars, repo_vars>>

\* self.merge(&other), self.merge(&self.clone()) and other.merge(&self) of
\* crdt/version_vector.rs
MergeVectors ==
    /\ \/ /\ self_vv' = merge(self_vv, other_vv)
          /\ other_vv' = other_vv
          /\ vv_out' = VectorOp("merge", self_vv, other_vv, "", "returned",
                                merge(self_vv, other_vv), FALSE)
       \/ /\ self_vv' = merge(self_vv, self_vv)
          /\ other_vv' = other_vv
          /\ vv_out' = VectorOp("merge", self_vv, self_vv, "", "returned",
                                merge(self_vv, self_vv), FALSE)
       \/ /\ other_vv' = merge(other_vv, self_vv)
          /\ self_vv' = self_vv
          /\ vv_out' = VectorOp("merge", other_vv, self_vv, "", "returned",
                                merge(other_vv, self_vv), FALSE)
    /\ UNCHANGED <<local, remote, result, peer_result, sync_queue, allocated, now, op_result,
                   sess, sync_metadata, patients, crdt_vars, crypto_vars, repo_vars>>

\* self.merge(&other) of types.rs
TypesMerge ==
    /\ self_vv' = VersionVector_merge(self_vv, other_vv)
    /\ vv_out' = VectorOp("types_merge", self_vv, other_vv, "", "returned",
                          VersionVector_merge(self_vv, other_vv), FALSE)
    /\ UNCHANGED <<local, remote, result, peer_result, sync_queue, allocated, now, op_result,
                   sess, sync_metadata, patients, other_vv, crdt_vars, crypto_vars, repo_vars>>

\* self.happens_before(&other)
HappensBefore ==
    /\ vv_out' = VectorOp("happens_before", self_vv, other_vv, "", "returned", self_vv,
                          happens_before(self_vv, other_vv))
    /\ UNCHANGED <<local, remote, result, peer_result, sync_queue, allocated, now, op_result,
                   sess, sync_metadata, patients, self_vv, other_vv, crdt_vars, crypto_vars, repo_vars>>

\* the four relations of self and other: equals, happens_before either way, and
\* is_concurrent
Compare ==
    /\ vv_out' = VectorOp("compare", self_vv, other_vv, "", "returned", self_vv,
                          [equals |-> equals(self_vv, other_vv),
                           before |-> happens_before(self_vv, other_vv),
                           after |-> happens_before(other_vv, self_vv),
                           concurrent |-> is_concurrent(self_vv, other_vv)])
    /\ UNCHANGED <<local, remote, result, peer_result, sync_queue, allocated, now, op_result,
                   sess, sync_metadata, patients, self_vv, other_vv, crdt_vars, crypto_vars, repo_vars>>

VVNext ==
    \/ Increment
    \/ TypesIncrement
    \/ MergeVectors
    \/ TypesMerge
    \/ HappensBefore
    \/ Compare

VVSpec == VVInit /\ [][VVNext]_vars

(***************************************************************************)
(* Patient handlers (handlers/patients.rs).                                *)
(***************************************************************************)
\* a patient holds at most this many medications
MaxMedications == 1
AllergyNames == {"penicillin"}

\* Patient::new: active, no allergies, no medications
Patient_new(t) == [active |-> TRUE, allergies |-> {}, medications |-> 0, updated_at |-> t]

\* PatientRepository::create / update: the row of patient e is written
repo_write(table, e, row) ==
    [x \in DOMAIN table \cup {e} |-> IF x = e THEN row ELSE table[x]]

\* `let _ = sync_engine.track_...(..)`: the change is built and appended, and the
\* Result of the append is dropped
DomainTrack(c, journal_ok) ==
    /\ Cardinality(DOMAIN sync_queue) < MaxRows
    /\ sync_queue' = queue_change(sync_queue, c, journal_ok).queue
    /\ allocated' = allocated \cup {c.id}

\* what a patient handler answers
Answer(handler, ok, e) == [op |-> handler, ok |-> ok, entity_id |-> e]

\* handlers::patients::create_patient
create_patient ==
    /\ \E e \in Entities \ DOMAIN patients, id \in new_v4(allocated),
          repo_ok \in BOOLEAN, journal_ok \in BOOLEAN :
          IF repo_ok
          THEN /\ patients' = repo_write(patients, e, Patient_new(now))
               /\ DomainTrack(Change_create(id, e, JsonObject([phone |-> "l"]),
                                            ThisDevice, now), journal_ok)
               /\ op_result' = Answer("create_patient", TRUE, e)
          ELSE /\ op_result' = Answer("create_patient", FALSE, e)
               /\ UNCHANGED <<patients, sync_queue, allocated, crdt_vars, crypto_vars, repo_vars>>
    /\ UNCHANGED <<local, remote, result, peer_result, now, sess, sync_metadata,
                   self_vv, other_vv, vv_out, crdt_vars, crypto_vars, repo_vars>>

\* handlers::patients::update_patient
update_patient ==
    /\ \E e \in DOMAIN patients, id \in new_v4(allocated), d \in TrackedPayloads,
          repo_ok \in BOOLEAN, journal_ok \in BOOLEAN :
          IF repo_ok
          THEN /\ patients' = repo_write(patients, e, [patients[e] EXCEPT !.updated_at = now])
               /\ DomainTrack(Change_update(id, e, d, ThisDevice, now), journal_ok)
               /\ op_result' = Answer("update_patient", TRUE, e)
          ELSE /\ op_result' = Answer("update_patient", FALSE, e)
               /\ UNCHANGED <<patients, sync_queue, allocated, crdt_vars, crypto_vars, repo_vars>>
    /\ UNCHANGED <<local, remote, result, peer_result, now, sess, sync_metadata,
                   self_vv, other_vv, vv_out, crdt_vars, crypto_vars, repo_vars>>

\* handlers::patients::delete_patient: a soft delete
delete_patient ==
    /\ \E e \in DOMAIN patients, id \in new_v4(allocated),
          repo_ok \in BOOLEAN, journal_ok \in BOOLEAN :
          IF repo_ok
          THEN /\ patients' = repo_write(patients, e,
                                 [patients[e] EXCEPT !.active = FALSE, !.updated_at = now])
               /\ DomainTrack(Change_delete(id, e, ThisDevice, now), journal_ok)
               /\ op_result' = Answer("delete_patient", TRUE, e)
          ELSE /\ op_result' = Answer("delete_patient", FALSE, e)
               /\ UNCHANGED <<patients, sync_queue, allocated, crdt_vars, crypto_vars, repo_vars>>
    /\ UNCHANGED <<local, remote, result, peer_result, now, sess, sync_metadata,
                   self_vv, other_vv, vv_out, crdt_vars, crypto_vars, repo_vars>>

\* handlers::patients::add_allergy: Patient::add_allergy skips a name the patient
\* has; no change is tracked
add_allergy ==
    /\ \E e \in DOMAIN patients, name \in AllergyNames, repo_ok \in BOOLEAN :
          IF repo_ok
          THEN /\ patients' = repo_write(patients, e,
                                 IF name \in patients[e].allergies THEN patients[e]
                                 ELSE [patients[e] EXCEPT !.allergies = @ \cup {name},
                                                          !.updated_at = now])
               /\ op_result' = Answer("add_allergy", TRUE, e)
          ELSE /\ op_result' = Answer("add_allergy", FALSE, e)
               /\ UNCHANGED patients
    /\ UNCHANGED <<local, remote, result, peer_result, sync_queue, allocated, now, sess,
                   sync_metadata, self_vv, other_vv, vv_out, crdt_vars, crypto_vars, repo_vars>>

\* handlers::patients::add_medication; no change is tracked
add_medication ==
    /\ \E e \in DOMAIN patients, repo_ok \in BOOLEAN :
          /\ patients[e].medications < MaxMedications
          /\ IF repo_ok
             THEN /\ patients' = repo_write(patients, e,
                                    [patients[e] EXCEPT !.medications = @ + 1,
                                                        !.updated_at = now])
                  /\ op_result' = Answer("add_medication", TRUE, e)
             ELSE /\ op_result' = Answer("add_medication", FALSE, e)
                  /\ UNCHANGED patients
    /\ UNCHANGED <<local, remote, result, peer_result, sync_queue, allocated, now, sess,
                   sync_metadata, self_vv, other_vv, vv_out, crdt_vars, crypto_vars, repo_vars>>

\* the patient handlers under any sequence of requests
DomainNext ==
    \/ create_patient
    \/ update_patient
    \/ delete_patient
    \/ add_allergy
    \/ add_medication
    \/ Tick

DomainSpec == Init /\ [][DomainNext]_vars

(***************************************************************************)
(* Sync engine (engine.rs) and sync handlers (handlers/sync.rs).           *)
(***************************************************************************)
\* the changes another device pushes: its own id space, entity 1 or 2
RemoteId == MaxIds + 1
RemoteChanges ==
    {Change_update(RemoteId, e, d, "B", t) :
        e \in {1, 2}, d \in {JsonObject([phone |-> "r"]), JsonObject([email |-> "r"])},
        t \in {0, now}}
    \cup {Change_delete(RemoteId, 1, "B", t) : t \in {0, now}}

\* a handler begins: AppState::sync_engine builds a new SyncEngine for the request
Begin(handler, pc, changes) ==
    [NoRequest EXCEPT !.handler = handler, !.pc = pc, !.engine = SyncEngine_new,
                      !.changes = changes]

\* a handler returns: its locals are dropped, the response goes out
Return(r, outcome, response) ==
    [NoRequest EXCEPT !.handler = r.handler, !.pc = "done", !.engine = r.engine,
                      !.outcome = outcome, !.response = response]

\* pull_changes, up to the answer of get_pending_changes(limit)
PullBegin ==
    /\ \E s \in Sessions, limit \in {1, DefaultLimit}, db_ok \in BOOLEAN :
          /\ sess[s].pc = "idle"
          /\ IF db_ok
             THEN \E cs \in get_pending_changes(sync_queue, limit) :
                     sess' = [sess EXCEPT ![s] = Begin("pull", "pull_mark", cs)]
             ELSE sess' = [sess EXCEPT ![s] =
                              Return(Begin("pull", "pull_mark", <<>>),
                                     "InternalError", NoResponse)]
    /\ UNCHANGED <<local, remote, result, peer_result, sync_queue, allocated, now, op_result, sync_metadata, patients,
                 self_vv, other_vv, vv_out, crdt_vars, crypto_vars, repo_vars>>

\* pull_changes, the rest: mark the returned changes synced, ignoring the result
\* of mark_synced, and answer with them
PullMark ==
    /\ \E s \in Sessions :
          /\ sess[s].pc = "pull_mark"
          /\ LET cs == sess[s].changes
                 change_ids == [k \in 1 .. Len(cs) |-> cs[k].id]
             IN  /\ IF change_ids # <<>>
                    THEN \E n \in 0 .. Len(change_ids) :
                            sync_queue' = mark_synced(sync_queue, change_ids, n, now).queue
                    ELSE sync_queue' = sync_queue
                 /\ sess' = [sess EXCEPT ![s] =
                                Return(sess[s], "Ok", [NoResponse EXCEPT !.changes = cs])]
    /\ UNCHANGED <<local, remote, result, peer_result, allocated, now, op_result, sync_metadata, patients,
                 self_vv, other_vv, vv_out, crdt_vars, crypto_vars, repo_vars>>

\* SyncEngine::apply_single_change on one answer of get_pending_changes(100): the
\* first pending change of the same entity is resolved against the remote one;
\* apply_change_to_db only logs. The value is what the call did.
apply_single_change(change, local_changes, new_id) ==
    LET hits == {k \in 1 .. Len(local_changes) :
                    /\ local_changes[k].entity_id = change.entity_id
                    /\ local_changes[k].entity_type = change.entity_type}
    IN  IF hits # {}
        THEN LET first == CHOOSE k \in hits : \A j \in hits : k <= j
                 res == resolve(local_changes[first], change, new_id)
             IN  [id |-> change.id, entity_id |-> change.entity_id,
                  against |-> local_changes[first].id, resolution |-> res.kind,
                  to_db |-> IF res.kind = "Merge" THEN <<res.change>>
                            ELSE IF res.kind = "KeepRemote" THEN <<change>> ELSE <<>>]
        ELSE [id |-> change.id, entity_id |-> change.entity_id, against |-> 0,
              resolution |-> "Direct", to_db |-> <<change>>]

\* SyncEngine::apply_remote_changes: the conflicts it collects, which are the
\* entity ids of the changes whose resolution was Conflict
apply_remote_changes(done) ==
    LET conflicting == SelectSeq(done, LAMBDA d : d.resolution = "Conflict")
    IN  [k \in 1 .. Len(conflicting) |-> conflicting[k].entity_id]

\* push_changes, had its filter kept the ids that are among the conflicts
acknowledged_from_conflicts(changes, conflicts) ==
    SelectSeq([k \in 1 .. Len(changes) |-> changes[k].id],
              LAMBDA i : i \in Range(conflicts))

\* push_changes: the ids of the pushed changes that are not among the conflicts
acknowledged_of(changes, conflicts) ==
    SelectSeq([k \in 1 .. Len(changes) |-> changes[k].id],
              LAMBDA i : i \notin Range(conflicts))

\* push_changes with a request of one change: apply_remote_changes reads the
\* pending changes once, resolves, and the handler answers. Every pushed id that
\* is not among the conflicts is acknowledged, every conflict is rejected; the
\* journal is not written.
PushChanges ==
    /\ \E s \in Sessions, change \in RemoteChanges, db_ok \in BOOLEAN :
          /\ sess[s].pc = "idle"
          /\ IF db_ok
             THEN \E local_changes \in get_pending_changes(sync_queue, DefaultLimit),
                     new_id \in new_v4(allocated \cup {change.id}) :
                     LET done == apply_single_change(change, local_changes, new_id)
                         conflicts == apply_remote_changes(<<done>>)
                         acknowledged == acknowledged_of(<<change>>, conflicts)
                     IN  sess' = [sess EXCEPT ![s] =
                                     Return(Begin("push", "idle", <<change>>), "Ok",
                                            [NoResponse EXCEPT
                                                !.acknowledged = acknowledged,
                                                !.rejected = conflicts,
                                                !.applied = <<done>>])]
             ELSE sess' = [sess EXCEPT ![s] =
                              Return(Begin("push", "idle", <<change>>),
                                     "InternalError", NoResponse)]
    /\ UNCHANGED <<local, remote, result, peer_result, sync_queue, allocated, now, op_result, sync_metadata, patients,
                 self_vv, other_vv, vv_out, crdt_vars, crypto_vars, repo_vars>>

\* SyncEngine::get_status, called by the get_status handler on its new engine
get_status(engine, q, db_ok) ==
    [NoResponse EXCEPT !.state = engine.state,
                       !.pending_changes = IF db_ok THEN pending_count(q) ELSE 0,
                       !.last_sync = engine.last_sync]

\* handlers::sync::get_status
GetStatus ==
    /\ \E s \in Sessions, db_ok \in BOOLEAN :
          /\ sess[s].pc = "idle"
          /\ sess' = [sess EXCEPT ![s] =
                         Return(Begin("status", "idle", <<>>), "Ok",
                                get_status(SyncEngine_new, sync_queue, db_ok))]
    /\ UNCHANGED <<local, remote, result, peer_result, sync_queue, allocated, now, op_result, sync_metadata, patients,
                 self_vv, other_vv, vv_out, crdt_vars, crypto_vars, repo_vars>>

\* the response has gone out; the request slot is free again
Respond ==
    /\ \E s \in Sessions :
          /\ sess[s].pc = "done"
          /\ sess' = [sess EXCEPT ![s] = NoRequest]
    /\ UNCHANGED <<local, remote, result, peer_result, sync_queue, allocated, now, op_result, sync_metadata, patients,
                 self_vv, other_vv, vv_out, crdt_vars, crypto_vars, repo_vars>>

\* the server: domain handlers track changes while sync requests come in
Next ==
    \/ track_create
    \/ track_update
    \/ track_delete
    \/ Tick
    \/ PullBegin
    \/ PullMark
    \/ PushChanges
    \/ GetStatus
    \/ Respond

Spec == Init /\ [][Next]_vars

(***************************************************************************)
(* LWW register: crdt/lww_register.rs LWWRegister and crdt.rs LwwRegister. *)
(* Init draws three registers, the actions merge them.                     *)
(***************************************************************************)
\* device ids, by their order (Uuid and String are both Ord)
DeviceIds == {1, 2}
RegValues == {"v1", "v2"}
\* every value of the type: the fields are public, with_timestamp takes any
\* instant, and the struct is deserialized from what a peer sends
Registers == [value : RegValues, timestamp : Times, device_id : DeviceIds]

CrdtOp(op, receiver, argument, after, value) ==
    [op |-> op, receiver |-> receiver, argument |-> argument, after |-> after,
     value |-> value]

\* LWWRegister::merge, had its first branch left the receiver's timestamp alone
LWWRegister_merge_keep_timestamp(reg, other) ==
    IF other.timestamp > reg.timestamp
    THEN [reg EXCEPT !.value = other.value, !.device_id = other.device_id]
    ELSE IF other.timestamp = reg.timestamp /\ other.device_id > reg.device_id
    THEN [reg EXCEPT !.value = other.value, !.device_id = other.device_id]
    ELSE reg

\* LWWRegister::merge of crdt/lww_register.rs
LWWRegister_merge(reg, other) ==
    IF other.timestamp > reg.timestamp
    THEN [reg EXCEPT !.value = other.value, !.timestamp = other.timestamp,
                     !.device_id = other.device_id]
    ELSE IF other.timestamp = reg.timestamp /\ other.device_id > reg.device_id
    THEN [reg EXCEPT !.value = other.value, !.device_id = other.device_id]
    ELSE reg

\* LwwRegister::merge of crdt.rs
LwwRegister_merge(reg, other) ==
    IF other.timestamp > reg.timestamp
    THEN [reg EXCEPT !.value = other.value, !.timestamp = other.timestamp,
                     !.device_id = other.device_id]
    ELSE IF other.timestamp = reg.timestamp /\ other.device_id > reg.device_id
    THEN [reg EXCEPT !.value = other.value, !.device_id = other.device_id]
    ELSE reg

\* the merges of a, b and c in both orders and both groupings, and of a with itself
MergeResults(m(_, _), a, b, c) ==
    [ab |-> m(a, b), ba |-> m(b, a), ab_c |-> m(m(a, b), c), a_bc |-> m(a, m(b, c)),
     aa |-> m(a, a)]

NoResolverOp ==
    /\ local = Change_delete(1, 1, "A", 0)
    /\ remote = Change_delete(2, 1, "B", 0)
    /\ result = NoResult
    /\ peer_result = NoResult

LwwInit ==
    /\ NoResolverOp
    /\ JournalIdle
    /\ VectorIdle
    /\ CryptoIdle
    /\ RepoIdle
    /\ crdt_a \in Registers
    /\ crdt_b \in Registers
    /\ crdt_c \in Registers
    /\ crdt_out = NoCrdtOp

\* a.merge(&b) of crdt/lww_register.rs
MergeRegister ==
    /\ crdt_a' = LWWRegister_merge(crdt_a, crdt_b)
    /\ crdt_out' = CrdtOp("merge", crdt_a, crdt_b, LWWRegister_merge(crdt_a, crdt_b), FALSE)
    /\ UNCHANGED <<resolver_vars, journal_vars, sess, patients, vector_vars, crypto_vars, repo_vars, crdt_b, crdt_c>>

\* a.merge(&b) of crdt.rs
MergeLwwRegister ==
    /\ crdt_a' = LwwRegister_merge(crdt_a, crdt_b)
    /\ crdt_out' = CrdtOp("lww_merge", crdt_a, crdt_b, LwwRegister_merge(crdt_a, crdt_b),
                          FALSE)
    /\ UNCHANGED <<resolver_vars, journal_vars, sess, patients, vector_vars, crypto_vars, repo_vars, crdt_b, crdt_c>>

\* the replicas a, b and c merged in every order, each on clones
MergeRegisterOrders ==
    /\ \/ crdt_out' = CrdtOp("orders", crdt_a, crdt_b, crdt_a,
                             MergeResults(LWWRegister_merge, crdt_a, crdt_b, crdt_c))
       \/ crdt_out' = CrdtOp("lww_orders", crdt_a, crdt_b, crdt_a,
                             MergeResults(LwwRegister_merge, crdt_a, crdt_b, crdt_c))
    /\ UNCHANGED <<resolver_vars, journal_vars, sess, patients, vector_vars, crypto_vars, repo_vars,
                   crdt_a, crdt_b, crdt_c>>

LwwNext ==
    \/ MergeRegister
    \/ MergeLwwRegister
    \/ MergeRegisterOrders

LwwSpec == LwwInit /\ [][LwwNext]_vars

(***************************************************************************)
(* MV register: crdt/mv_register.rs MVRegister (a HashSet of versioned     *)
(* values) and crdt.rs MvRegister (a Vec of them). Init draws two          *)
(* registers, the actions merge them.                                      *)
(***************************************************************************)
\* a drawn register holds at most this many versioned values
MaxValues == 2
VersionedValue == [value : RegValues, timestamp : Times, device_id : DeviceIds]
\* every value of the type: `values` is a public field
MVRegisters == {S \in SUBSET VersionedValue : Cardinality(S) <= MaxValues}

MaxOf(S) == CHOOSE x \in S : \A y \in S : y <= x

\* MVRegister::merge
MVRegister_merge(values, other) ==
    IF values \cup other = {} THEN values
    ELSE LET max_ts == MaxOf({v.timestamp : v \in values \cup other})
         IN  {v \in values \cup other : v.timestamp = max_ts}

\* MVRegister::has_conflict
MVRegister_has_conflict(values) == Cardinality(values) > 1

\* MVRegister::get_single: Some(value) or None
MVRegister_get_single(values) ==
    IF Cardinality(values) = 1 THEN {v.value : v \in values} ELSE {}

\* the orders a Vec can hold the entries in
Orders(S) == {s \in [1 .. Cardinality(S) -> S] : Range(s) = S}

\* slice::sort_by(|a, b| b.timestamp.cmp(a.timestamp)): a stable sort, latest first
RECURSIVE sort_by_timestamp_desc(_)
sort_by_timestamp_desc(s) ==
    IF s = <<>> THEN <<>>
    ELSE LET first == CHOOSE i \in 1 .. Len(s) :
                         /\ \A j \in 1 .. Len(s) : s[j].timestamp <= s[i].timestamp
                         /\ \A j \in 1 .. i - 1 : s[j].timestamp < s[i].timestamp
         IN  <<s[first]>> \o
             sort_by_timestamp_desc([k \in 1 .. Len(s) - 1 |->
                                        IF k < first THEN s[k] ELSE s[k + 1]])

\* the loop of MvRegister::merge: an entry of other is pushed unless the
\* receiver already holds its value
RECURSIVE push_unseen(_, _)
push_unseen(values, other) ==
    IF other = <<>> THEN values
    ELSE push_unseen(IF \E i \in 1 .. Len(values) : values[i].value = Head(other).value
                     THEN values
                     ELSE Append(values, Head(other)),
                     Tail(other))

\* MvRegister::merge of crdt.rs
MvRegister_merge(values, other) == sort_by_timestamp_desc(push_unseen(values, other))

\* MvRegister::has_conflict of crdt.rs
MvRegister_has_conflict(values) == Len(values) > 1

MvInit ==
    /\ NoResolverOp
    /\ JournalIdle
    /\ VectorIdle
    /\ CryptoIdle
    /\ RepoIdle
    /\ crdt_a \in MVRegisters
    /\ crdt_b \in MVRegisters
    /\ crdt_c = <<>>
    /\ crdt_out = NoCrdtOp

\* a.merge(&b) of crdt/mv_register.rs, then has_conflict and get_single
MergeMVRegister ==
    /\ crdt_a' = MVRegister_merge(crdt_a, crdt_b)
    /\ crdt_out' = CrdtOp("merge", crdt_a, crdt_b, MVRegister_merge(crdt_a, crdt_b),
                          [has_conflict |->
                               MVRegister_has_conflict(MVRegister_merge(crdt_a, crdt_b)),
                           get_single |->
                               MVRegister_get_single(MVRegister_merge(crdt_a, crdt_b))])
    /\ UNCHANGED <<resolver_vars, journal_vars, sess, patients, vector_vars, crypto_vars, repo_vars, crdt_b, crdt_c>>

\* a.merge(&b) of crdt.rs, then has_conflict; the two Vecs hold their entries in
\* some order
MergeMvRegister ==
    /\ \E values \in Orders(crdt_a), other \in Orders(crdt_b) :
          /\ crdt_a' = Range(MvRegister_merge(values, other))
          /\ crdt_out' = CrdtOp("mv_merge", crdt_a, crdt_b,
                                Range(MvRegister_merge(values, other)),
                                [has_conflict |->
                                     MvRegister_has_conflict(MvRegister_merge(values, other)),
                                 get_single |-> {}])
    /\ UNCHANGED <<resolver_vars, journal_vars, sess, patients, vector_vars, crypto_vars, repo_vars, crdt_b, crdt_c>>

MvNext ==
    \/ MergeMVRegister
    \/ MergeMvRegister

MvSpec == MvInit /\ [][MvNext]_vars

(***************************************************************************)
(* OR-List: crdt/crdt_list.rs CRDTList (a HashMap from element id to       *)
(* element) and crdt.rs CrdtList (a Vec of elements with distinct ids). A  *)
(* list is a function from the ids it holds to their elements; the order   *)
(* of the Vec is not modelled.                                             *)
(***************************************************************************)
ListElement == [value : RegValues, timestamp : Times, device_id : DeviceIds,
                deleted : BOOLEAN]
\* CRDTList::new
CRDTList_new == <<>>
\* the lists over the element ids S
ListsOver(S) == UNION {[T -> ListElement] : T \in SUBSET S}

\* CRDTList::merge of crdt/crdt_list.rs
CRDTList_merge(elements, other) ==
    [id \in DOMAIN elements \cup DOMAIN other |->
        IF id \notin DOMAIN other THEN elements[id]
        ELSE IF id \notin DOMAIN elements THEN other[id]
        ELSE IF other[id].timestamp > elements[id].timestamp THEN other[id]
        ELSE IF /\ other[id].timestamp = elements[id].timestamp
                /\ other[id].device_id > elements[id].device_id THEN other[id]
        ELSE elements[id]]

\* CrdtList::merge of crdt.rs
CrdtList_merge(elements, other) ==
    [id \in DOMAIN elements \cup DOMAIN other |->
        IF id \notin DOMAIN other THEN elements[id]
        ELSE IF id \notin DOMAIN elements THEN other[id]
        ELSE IF other[id].timestamp > elements[id].timestamp
        THEN [elements[id] EXCEPT !.value = other[id].value,
                                  !.deleted = other[id].deleted,
                                  !.timestamp = other[id].timestamp,
                                  !.device_id = other[id].device_id]
        ELSE elements[id]]

(***************************************************************************)
(* List merge as a pure function: Init draws three lists, the actions      *)
(* merge them. merge treats each element id on its own, so the drawn lists *)
(* hold element 1 or nothing.                                              *)
(***************************************************************************)
ListMergeInit ==
    /\ NoResolverOp
    /\ JournalIdle
    /\ VectorIdle
    /\ CryptoIdle
    /\ RepoIdle
    /\ crdt_a \in ListsOver({1})
    /\ crdt_b \in ListsOver({1})
    /\ crdt_c \in ListsOver({1})
    /\ crdt_out = NoCrdtOp

\* a.merge(&b) of crdt/crdt_list.rs
MergeCRDTList ==
    /\ crdt_a' = CRDTList_merge(crdt_a, crdt_b)
    /\ crdt_out' = CrdtOp("merge", crdt_a, crdt_b, CRDTList_merge(crdt_a, crdt_b), FALSE)
    /\ UNCHANGED <<resolver_vars, journal_vars, sess, patients, vector_vars, crypto_vars, repo_vars, crdt_b, crdt_c>>

\* a.merge(&b) of crdt.rs
MergeCrdtList ==
    /\ crdt_a' = CrdtList_merge(crdt_a, crdt_b)
    /\ crdt_out' = CrdtOp("list_merge", crdt_a, crdt_b, CrdtList_merge(crdt_a, crdt_b),
                          FALSE)
    /\ UNCHANGED <<resolver_vars, journal_vars, sess, patients, vector_vars, crypto_vars, repo_vars, crdt_b, crdt_c>>

\* the replicas a, b and c merged in every order, each on clones
MergeListOrders ==
    /\ \/ crdt_out' = CrdtOp("orders", crdt_a, crdt_b, crdt_a,
                             MergeResults(CRDTList_merge, crdt_a, crdt_b, crdt_c))
       \/ crdt_out' = CrdtOp("list_orders", crdt_a, crdt_b, crdt_a,
                             MergeResults(CrdtList_merge, crdt_a, crdt_b, crdt_c))
    /\ UNCHANGED <<resolver_vars, journal_vars, sess, patients, vector_vars, crypto_vars, repo_vars,
                   crdt_a, crdt_b, crdt_c>>

ListMergeNext ==
    \/ MergeCRDTList
    \/ MergeCrdtList
    \/ MergeListOrders

ListMergeSpec == ListMergeInit /\ [][ListMergeNext]_vars

(***************************************************************************)
(* The OR-List of crdt/crdt_list.rs on two replicas: device 1 works on     *)
(* crdt_a, device 2 on crdt_b, and each merges the other's list.           *)
(***************************************************************************)
\* the replicas add at most this many elements between them
MaxElements == 2
ElementIds == 1 .. MaxElements

\* CRDTList::add: the list with the new element, and the id returned
CRDTList_add(elements, id, value, device_id, t) ==
    [elements |-> [e \in DOMAIN elements \cup {id} |->
                      IF e = id
                      THEN [value |-> value, timestamp |-> t, device_id |-> device_id,
                            deleted |-> FALSE]
                      ELSE elements[e]],
     returned |-> id]

\* CRDTList::remove, had it stamped the element again whether deleted or not
CRDTList_remove_unguarded(elements, id, device_id, t) ==
    IF id \in DOMAIN elements
    THEN [elements |-> [elements EXCEPT ![id].deleted = TRUE, ![id].timestamp = t,
                                        ![id].device_id = device_id],
          returned |-> TRUE]
    ELSE [elements |-> elements, returned |-> FALSE]

\* CRDTList::remove: the list afterwards, and the bool returned
CRDTList_remove(elements, id, device_id, t) ==
    IF id \in DOMAIN elements /\ ~elements[id].deleted
    THEN [elements |-> [elements EXCEPT ![id].deleted = TRUE, ![id].timestamp = t,
                                        ![id].device_id = device_id],
          returned |-> TRUE]
    ELSE [elements |-> elements, returned |-> FALSE]

\* CRDTList::update: the list afterwards, and the bool returned
CRDTList_update(elements, id, value, device_id, t) ==
    IF id \in DOMAIN elements /\ ~elements[id].deleted
    THEN [elements |-> [elements EXCEPT ![id].value = value, ![id].timestamp = t,
                                        ![id].device_id = device_id],
          returned |-> TRUE]
    ELSE [elements |-> elements, returned |-> FALSE]

\* CRDTList::get_active, as the ids of the elements returned
CRDTList_get_active(elements) == {id \in DOMAIN elements : ~elements[id].deleted}

ListInit ==
    /\ NoResolverOp
    /\ JournalIdle
    /\ VectorIdle
    /\ CryptoIdle
    /\ RepoIdle
    /\ crdt_a = CRDTList_new
    /\ crdt_b = CRDTList_new
    /\ crdt_c = <<>>
    /\ crdt_out = NoCrdtOp

\* what a list operation did: the device, the list before and after, the
\* argument, what was returned, and get_active() afterwards
ListOp(op, device, receiver, argument, done) ==
    [op |-> op, device |-> device, receiver |-> receiver, argument |-> argument,
     after |-> done.elements, value |-> done.returned,
     active |-> CRDTList_get_active(done.elements)]

\* device d runs `done` on its replica
OnReplica(d, op, argument, done) ==
    /\ crdt_a' = IF d = 1 THEN done.elements ELSE crdt_a
    /\ crdt_b' = IF d = 2 THEN done.elements ELSE crdt_b
    /\ crdt_out' = ListOp(op, d, IF d = 1 THEN crdt_a ELSE crdt_b, argument, done)

\* list.add(value, device_id): Uuid::new_v4() gives an id no list holds
AddElement ==
    /\ \E d \in DeviceIds, id \in new_v4(allocated) \cap ElementIds :
          /\ OnReplica(d, "add", id,
                       CRDTList_add(IF d = 1 THEN crdt_a ELSE crdt_b, id, "v1", d, now))
          /\ allocated' = allocated \cup {id}
    /\ UNCHANGED <<resolver_vars, sync_queue, now, op_result, sync_metadata, sess, patients,
                   vector_vars, crypto_vars, repo_vars, crdt_c>>

\* list.remove(&id, device_id), for an id the list may or may not hold
RemoveElement ==
    /\ \E d \in DeviceIds, id \in ElementIds :
          OnReplica(d, "remove", id,
                    CRDTList_remove(IF d = 1 THEN crdt_a ELSE crdt_b, id, d, now))
    /\ UNCHANGED <<resolver_vars, journal_vars, sess, patients, vector_vars, crypto_vars, repo_vars, crdt_c>>

\* list.update(&id, value, device_id)
UpdateElement ==
    /\ \E d \in DeviceIds, id \in ElementIds :
          OnReplica(d, "update", id,
                    CRDTList_update(IF d = 1 THEN crdt_a ELSE crdt_b, id, "v2", d, now))
    /\ UNCHANGED <<resolver_vars, journal_vars, sess, patients, vector_vars, crypto_vars, repo_vars, crdt_c>>

\* list.merge(&other): a device merges the other device's list into its own
MergeLists ==
    /\ \/ OnReplica(1, "merge", crdt_b,
                    [elements |-> CRDTList_merge(crdt_a, crdt_b), returned |-> FALSE])
       \/ OnReplica(2, "merge", crdt_a,
                    [elements |-> CRDTList_merge(crdt_b, crdt_a), returned |-> FALSE])
    /\ UNCHANGED <<resolver_vars, journal_vars, sess, patients, vector_vars, crypto_vars, repo_vars, crdt_c>>

ListNext ==
    \/ AddElement
    \/ RemoveElement
    \/ UpdateElement
    \/ MergeLists
    \/ Tick

ListSpec == ListInit /\ [][ListNext]_vars

(***************************************************************************)
(* LWW map (crdt.rs LwwMap: a HashMap from key to LwwRegister<Option<V>>)  *)
(* on two replicas: device 1 works on crdt_a, device 2 on crdt_b, and each *)
(* merges the other's map.                                                 *)
(***************************************************************************)
MapKeys == {"k1", "k2"}
\* Option::None; Some(v) is v
None == "None"

\* LwwRegister::new
LwwRegister_new(value, device_id, t) ==
    [value |-> value, timestamp |-> t, device_id |-> device_id]

\* LwwRegister::update
LwwRegister_update(reg, value, device_id, t) ==
    [reg EXCEPT !.value = value, !.timestamp = t, !.device_id = device_id]

\* LwwMap::new
LwwMap_new == <<>>

\* LwwMap::set
LwwMap_set(entries, key, value, device_id, t) ==
    [k \in DOMAIN entries \cup {key} |->
        IF k = key THEN LwwRegister_new(value, device_id, t) ELSE entries[k]]

\* LwwMap::remove
LwwMap_remove(entries, key, device_id, t) ==
    IF key \in DOMAIN entries
    THEN [entries EXCEPT ![key] = LwwRegister_update(entries[key], None, device_id, t)]
    ELSE entries

\* LwwMap::get: Some(v) or None
LwwMap_get(entries, key) ==
    IF key \in DOMAIN entries THEN entries[key].value ELSE None

\* LwwMap::merge
LwwMap_merge(entries, other) ==
    [k \in DOMAIN entries \cup DOMAIN other |->
        IF k \notin DOMAIN other THEN entries[k]
        ELSE IF k \in DOMAIN entries THEN LwwRegister_merge(entries[k], other[k])
        ELSE other[k]]

MapInit ==
    /\ NoResolverOp
    /\ JournalIdle
    /\ VectorIdle
    /\ CryptoIdle
    /\ RepoIdle
    /\ crdt_a = LwwMap_new
    /\ crdt_b = LwwMap_new
    /\ crdt_c = <<>>
    /\ crdt_out = NoCrdtOp

\* what a map operation did: the device, the map before and after, the key or
\* the map given, the instant, and get(k) afterwards for every key
MapOp(op, device, receiver, argument, after) ==
    [op |-> op, device |-> device, receiver |-> receiver, argument |-> argument,
     after |-> after, at |-> now, get |-> [k \in MapKeys |-> LwwMap_get(after, k)]]

\* device d leaves `after` in its replica
OnMap(d, op, argument, after) ==
    /\ crdt_a' = IF d = 1 THEN after ELSE crdt_a
    /\ crdt_b' = IF d = 2 THEN after ELSE crdt_b
    /\ crdt_out' = MapOp(op, d, IF d = 1 THEN crdt_a ELSE crdt_b, argument, after)

\* map.set(key, value, device_id)
SetKey ==
    /\ \E d \in DeviceIds, k \in MapKeys, v \in RegValues :
          OnMap(d, "set", k, LwwMap_set(IF d = 1 THEN crdt_a ELSE crdt_b, k, v, d, now))
    /\ UNCHANGED <<resolver_vars, journal_vars, sess, patients, vector_vars, crypto_vars, repo_vars, crdt_c>>

\* map.remove(&key, device_id), for a key the map may or may not hold
RemoveKey ==
    /\ \E d \in DeviceIds, k \in MapKeys :
          OnMap(d, "remove", k, LwwMap_remove(IF d = 1 THEN crdt_a ELSE crdt_b, k, d, now))
    /\ UNCHANGED <<resolver_vars, journal_vars, sess, patients, vector_vars, crypto_vars, repo_vars, crdt_c>>

\* map.merge(&other): a device merges the other device's map into its own
MergeMaps ==
    /\ \/ OnMap(1, "merge", crdt_b, LwwMap_merge(crdt_a, crdt_b))
       \/ OnMap(2, "merge", crdt_a, LwwMap_merge(crdt_b, crdt_a))
    /\ UNCHANGED <<resolver_vars, journal_vars, sess, patients, vector_vars, crypto_vars, repo_vars, crdt_c>>

MapNext ==
    \/ SetKey
    \/ RemoveKey
    \/ MergeMaps
    \/ Tick

MapSpec == MapInit /\ [][MapNext]_vars

(***************************************************************************)
(* A change rejected again and again: the journal with record_sync_error   *)
(* running up to MaxRejections times per change.                           *)
(***************************************************************************)
\* one change is rejected at most this many times
MaxRejections == 11

\* SyncRepository::record_sync_error for a change the server rejected once more
RecordRejection ==
    /\ \E i \in DOMAIN sync_queue :
          /\ sync_queue[i].retry_count < MaxRejections
          /\ sync_queue' = record_sync_error(sync_queue, i, "rejected")
          /\ op_result' = [op |-> "record_sync_error", ok |-> TRUE, id |-> i]
    /\ UNCHANGED <<resolver_vars, allocated, now, sync_metadata, sess, patients, vector_vars,
                   crdt_vars, crypto_vars, repo_vars>>

RejectionNext ==
    \/ track_create
    \/ track_update
    \/ track_delete
    \/ RecordRejection

RejectionSpec == Init /\ [][RejectionNext]_vars

(***************************************************************************)
(* Field encryption (hedtronix-crypto/src/encryption.rs): AES-256-GCM with *)
(* a random nonce, the blob being base64(nonce ++ ciphertext ++ tag).      *)
(***************************************************************************)
\* Encryptor::new: key.len() != 32
KEY_LEN == 32
\* encrypt: nonce_bytes = [0u8; 12]; decrypt: data.len() < 12
NONCE_LEN == 12
\* aead::AES_256_GCM: the tag seal_in_place_append_tag appends
TAG_LEN == 16

\* plaintexts are at most this long
MaxPlain == 1
\* SystemRandom hands out at most this many nonces
MaxNonces == 3

PlainBytes == {1}
Plaintexts == UNION {[1 .. n -> PlainBytes] : n \in 0 .. MaxPlain}
Nonces == 1 .. MaxNonces
\* a key: its length and its bytes
KeyLens == {KEY_LEN - 1, KEY_LEN, KEY_LEN + 1}
EncryptionKeys ==
    {[len |-> l, material |-> 1] : l \in KeyLens} \cup {[len |-> KEY_LEN, material |-> 2]}

CryptoOk(v) == [ok |-> TRUE, error |-> "", value |-> v]
CryptoErr(e) == [ok |-> FALSE, error |-> e, value |-> <<>>]

\* Encryptor::new
Encryptor_new(key) ==
    IF key.len # KEY_LEN THEN CryptoErr("InvalidKeyLength") ELSE CryptoOk(key)

\* SystemRandom::fill(&mut nonce_bytes): 96 random bits, taken to differ from the
\* nonces drawn before; nothing when Nonces is used up
SystemRandom_fill(drawn) == Nonces \ drawn

\* the nonce CounterNonceSequence::new(prefix) gives first: counter 0
FirstNonce == 1

\* LessSafeKey::seal_in_place_append_tag: ciphertext and tag, which only the same
\* key and nonce open
seal_in_place_append_tag(key, nonce, plaintext) ==
    [key |-> key, nonce |-> nonce, plaintext |-> plaintext, intact |-> TRUE]

\* LessSafeKey::open_in_place on the len bytes after the nonce: fails when they are
\* shorter than a tag or when the tag does not verify
open_in_place(key, nonce, body, len) ==
    IF len < TAG_LEN THEN CryptoErr("Decryption failed")
    ELSE IF body.intact /\ body.key = key /\ body.nonce = nonce
         THEN CryptoOk(body.plaintext)
         ELSE CryptoErr("Decryption failed")

\* Encryptor::encrypt, had it taken its nonce from a new CounterNonceSequence
encrypt_counter_nonce(plaintext, key, nonce) ==
    [base64 |-> TRUE, len |-> NONCE_LEN + Len(plaintext) + TAG_LEN, nonce |-> FirstNonce,
     body |-> seal_in_place_append_tag(key, FirstNonce, plaintext)]

\* Encryptor::encrypt with the nonce the generator filled in: BASE64 of
\* nonce ++ ciphertext ++ tag
encrypt(plaintext, key, nonce) ==
    [base64 |-> TRUE, len |-> NONCE_LEN + Len(plaintext) + TAG_LEN, nonce |-> nonce,
     body |-> seal_in_place_append_tag(key, nonce, plaintext)]

\* Encryptor::decrypt
decrypt(ciphertext, key) ==
    IF ~ciphertext.base64 THEN CryptoErr("InvalidFormat")
    ELSE IF ciphertext.len < NONCE_LEN THEN CryptoErr("InvalidFormat")
    ELSE open_in_place(key, ciphertext.nonce, ciphertext.body, ciphertext.len - NONCE_LEN)

\* encrypt_field: Encryptor::new(key)?.encrypt(plaintext); rng_ok is whether
\* SystemRandom::fill succeeds
encrypt_field(plaintext, key, nonce, rng_ok) ==
    IF ~Encryptor_new(key).ok THEN Encryptor_new(key)
    ELSE IF ~rng_ok THEN CryptoErr("Failed to generate nonce")
    ELSE CryptoOk(encrypt(plaintext, key, nonce))

\* decrypt_field: Encryptor::new(key)?.decrypt(ciphertext)
decrypt_field(ciphertext, key) ==
    IF ~Encryptor_new(key).ok THEN Encryptor_new(key) ELSE decrypt(ciphertext, key)

CryptoInit ==
    /\ NoResolverOp
    /\ JournalIdle
    /\ VectorIdle
    /\ CrdtIdle
    /\ CryptoIdle
    /\ RepoIdle

\* encrypt_field(plaintext, key); the blob is stored
EncryptField ==
    /\ \E plaintext \in Plaintexts, key \in EncryptionKeys, rng_ok \in BOOLEAN :
       \E nonce \in SystemRandom_fill(rng) :
          LET r == encrypt_field(plaintext, key, nonce, rng_ok)
          IN  /\ rng' = IF r.ok THEN rng \cup {nonce} ELSE rng
              /\ blob' = IF r.ok THEN r.value ELSE blob
              /\ enc_out' = [op |-> "encrypt", key |-> key, plaintext |-> plaintext,
                             drawn |-> rng, previous |-> blob, result |-> r]
    /\ UNCHANGED <<resolver_vars, journal_vars, sess, patients, vector_vars, crdt_vars,
                   repo_vars>>

\* the stored blob is changed behind the program's back: a bit of the ciphertext
\* or tag flipped, the nonce replaced, the bytes cut short (below NONCE_LEN bytes
\* the nonce is cut too), or the text made something that is not base64
Tamper ==
    /\ blob.len > 0
    /\ \/ blob' = [blob EXCEPT !.body = NoBody]
       \/ \E n \in Nonces \ {blob.nonce} : blob.len >= NONCE_LEN /\ blob' = [blob EXCEPT !.nonce = n]
       \/ \E len \in 0 .. blob.len - 1 :
             blob' = [blob EXCEPT !.len = len, !.body = NoBody,
                                  !.nonce = IF len < NONCE_LEN THEN 0 ELSE @]
       \/ blob' = [blob EXCEPT !.base64 = FALSE]
    /\ enc_out' = [op |-> "tamper"]
    /\ UNCHANGED <<resolver_vars, journal_vars, sess, patients, vector_vars, crdt_vars,
                   rng, repo_vars>>

\* decrypt_field(blob, key) on the stored blob
DecryptField ==
    /\ \E key \in EncryptionKeys :
          enc_out' = [op |-> "decrypt", key |-> key, result |-> decrypt_field(blob, key)]
    /\ UNCHANGED <<resolver_vars, journal_vars, sess, patients, vector_vars, crdt_vars,
                   rng, blob, repo_vars>>

CryptoNext ==
    \/ EncryptField
    \/ Tamper
    \/ DecryptField

CryptoSpec == CryptoInit /\ [][CryptoNext]_vars

(***************************************************************************)
(* Patient repository (hedtronix-db/src/repositories/patient_repository.rs) *)
(* over table patients with its encrypted columns, and the create_patient  *)
(* and delete_patient handlers as the steps that reach the repository.     *)
(* A row stands with one encrypted column, medical_record_number; the      *)
(* other encrypted columns go through the same closure.                    *)
(***************************************************************************)
\* the table holds at most this many patients
MaxPatients == 2
\* Patient ids come from Id::new_v4() as well; they get a range of their own
PatientIds == 1 .. MaxPatients

\* PatientRepository::encryption_key
RepoKey == [len |-> KEY_LEN, material |-> 1]

\* format!("MRN{:08}", count)
format_mrn(count) == <<"MRN", count>>

\* PatientRepository::count: SELECT COUNT(*) FROM patients
PatientRepository_count(table) == Cardinality(DOMAIN table)

\* PatientRepository::generate_mrn
generate_mrn(table) == format_mrn(PatientRepository_count(table) + 1)

\* the decrypt closure of row_to_patient: the empty text is the empty string
decrypt_column(s, key) ==
    IF s.base64 /\ s.len = 0 THEN CryptoOk(<<>>) ELSE decrypt_field(s, key)

\* PatientRepository::row_to_patient: an error as soon as a column does not decrypt
row_to_patient(e, row, key) ==
    LET mrn == decrypt_column(row.medical_record_number, key)
    IN  IF mrn.ok
        THEN CryptoOk([id |-> e, medical_record_number |-> mrn.value,
                       active |-> row.active = 1])
        ELSE CryptoErr(mrn.error)

\* what a query would hand out for a row that does not decrypt, were such rows
\* surfaced: the id with a marker in place of the fields
MarkerValue == <<"UNDECRYPTABLE">>
Marked(e, row) == [id |-> e, medical_record_number |-> MarkerValue, active |-> row.active = 1]

\* PatientRepository::create: the INSERT of the row with its columns encrypted
PatientRepository_create(table, patient, nonce) ==
    [e \in DOMAIN table \cup {patient.id} |->
        IF e = patient.id
        THEN [medical_record_number |->
                  encrypt_field(patient.medical_record_number, RepoKey, nonce, TRUE).value,
              active |-> IF patient.active THEN 1 ELSE 0]
        ELSE table[e]]

\* PatientRepository::update: the UPDATE leaves medical_record_number alone
PatientRepository_update(table, patient) ==
    [e \in DOMAIN table |->
        IF e = patient.id
        THEN [table[e] EXCEPT !.active = IF patient.active THEN 1 ELSE 0]
        ELSE table[e]]

\* PatientRepository::search with page 0 and a limit that takes in the table, so
\* that the page is the whole sorted list; the value is the set of its elements.
\* query is None or the text looked for in the medical record number.
PatientRepository_search(table, active_only, query, key) ==
    LET base == {e \in DOMAIN table : active_only => table[e].active = 1}
        rows == {row_to_patient(e, table[e], key) : e \in base}
        found == {r.value : r \in {x \in rows : x.ok}}
    IN  IF query = NoMrn THEN found
        ELSE {p \in found : p.medical_record_number = query}

\* PatientRepository::find_by_mrn: the first row that decrypts and carries the
\* number, in an order SQL leaves open, so any of them; None when there is none
find_by_mrn(table, mrn, key) ==
    LET hits == {e \in DOMAIN table :
                    /\ row_to_patient(e, table[e], key).ok
                    /\ row_to_patient(e, table[e], key).value.medical_record_number = mrn}
    IN  IF hits = {} THEN {NoPatient}
        ELSE {row_to_patient(e, table[e], key).value : e \in hits}

RepoOp(op, ok, value) == [op |-> op, ok |-> ok, value |-> value]

\* create_patient up to the answer of generate_mrn
CreatePatientGenerateMrn ==
    /\ \E s \in Sessions, db_ok \in BOOLEAN :
          /\ creating[s] = NoMrn
          /\ IF db_ok
             THEN /\ creating' = [creating EXCEPT ![s] = generate_mrn(patients)]
                  /\ repo_out' = RepoOp("generate_mrn", TRUE, NoPatient)
             ELSE /\ creating' = creating
                  /\ repo_out' = RepoOp("create_patient", FALSE, NoPatient)
    /\ UNCHANGED <<resolver_vars, journal_vars, sess, patients, vector_vars, crdt_vars,
                   crypto_vars>>

\* create_patient, the rest: Patient::new, PatientRepository::create and
\* track_create, whose Result is dropped
CreatePatientCreate ==
    /\ \E s \in Sessions, e \in PatientIds \ DOMAIN patients, id \in new_v4(allocated),
          repo_ok \in BOOLEAN, journal_ok \in BOOLEAN :
       \E nonce \in SystemRandom_fill(rng) :
          /\ creating[s] # NoMrn
          /\ creating' = [creating EXCEPT ![s] = NoMrn]
          /\ LET patient == [id |-> e, medical_record_number |-> creating[s],
                             active |-> TRUE]
             IN  IF repo_ok
                 THEN /\ patients' = PatientRepository_create(patients, patient, nonce)
                      /\ rng' = rng \cup {nonce}
                      /\ DomainTrack(Change_create(id, patient.id, JsonObject([phone |-> "l"]),
                                                   ThisDevice, now), journal_ok)
                      /\ repo_out' = RepoOp("create_patient", TRUE, patient)
                 ELSE /\ repo_out' = RepoOp("create_patient", FALSE, NoPatient)
                      /\ UNCHANGED <<patients, rng, sync_queue, allocated>>
    /\ UNCHANGED <<resolver_vars, now, op_result, sync_metadata, sess, vector_vars, crdt_vars,
                   blob, enc_out>>

\* delete_patient: find_by_id, active = false, PatientRepository::update and
\* track_delete; a row that does not decrypt is answered with not found
SoftDeletePatient ==
    /\ \E e \in DOMAIN patients, id \in new_v4(allocated), repo_ok \in BOOLEAN,
          journal_ok \in BOOLEAN :
          LET found == row_to_patient(e, patients[e], RepoKey)
          IN  IF found.ok /\ repo_ok
              THEN /\ patients' = PatientRepository_update(patients,
                                      [found.value EXCEPT !.active = FALSE])
                   /\ DomainTrack(Change_delete(id, e, ThisDevice, now), journal_ok)
                   /\ repo_out' = RepoOp("delete_patient", TRUE, NoPatient)
              ELSE /\ repo_out' = RepoOp("delete_patient", FALSE, NoPatient)
                   /\ UNCHANGED <<patients, sync_queue, allocated>>
    /\ UNCHANGED <<resolver_vars, now, op_result, sync_metadata, sess, vector_vars, crdt_vars,
                   crypto_vars, creating>>

\* a stored column is damaged on disk: its ciphertext no longer verifies
CorruptRow ==
    /\ \E e \in DOMAIN patients :
          /\ patients[e].medical_record_number.body # NoBody
          /\ patients' = [patients EXCEPT ![e].medical_record_number.body = NoBody]
    /\ repo_out' = RepoOp("corrupt", TRUE, NoPatient)
    /\ UNCHANGED <<resolver_vars, journal_vars, sess, vector_vars, crdt_vars, crypto_vars,
                   creating>>

\* PatientRepository::search, as list_patients and search_patients call it
Search ==
    /\ \E active_only \in BOOLEAN,
          query \in {NoMrn} \cup {format_mrn(n) : n \in 1 .. MaxPatients} :
          repo_out' = [op |-> "search", ok |-> TRUE, active_only |-> active_only,
                       query |-> query,
                       value |-> PatientRepository_search(patients, active_only, query, RepoKey)]
    /\ UNCHANGED <<resolver_vars, journal_vars, sess, patients, vector_vars, crdt_vars,
                   crypto_vars, creating>>

\* PatientRepository::find_by_mrn
FindByMrn ==
    /\ \E mrn \in {format_mrn(n) : n \in 1 .. MaxPatients} :
       \E p \in find_by_mrn(patients, mrn, RepoKey) :
          repo_out' = [op |-> "find_by_mrn", ok |-> TRUE, active_only |-> FALSE,
                       query |-> mrn, value |-> p]
    /\ UNCHANGED <<resolver_vars, journal_vars, sess, patients, vector_vars, crdt_vars,
                   crypto_vars, creating>>

RepoNext ==
    \/ CreatePatientGenerateMrn
    \/ CreatePatientCreate
    \/ SoftDeletePatient
    \/ CorruptRow
    \/ Search
    \/ FindByMrn

RepoSpec == Init /\ [][RepoNext]_vars

(***************************************************************************)
(* The sync health probe (handlers/sync.rs get_health) over a journal with *)
(* a backlog of pending changes.                                           *)
(***************************************************************************)
\* get_health: `if pending > 100`
HealthThreshold == 100
\* the journal starts with up to this many pending changes
MaxBacklog == 102

\* SyncHealth::healthy
SyncHealth_healthy(last_sync) ==
    [status |-> "Healthy", pending_changes |-> 0, last_sync |-> last_sync]

\* SyncHealth::warning
SyncHealth_warning(pending) ==
    [status |-> "Warning", pending_changes |-> pending, last_sync |-> Null]

\* get_health on its new engine, once pending_count and get_last_sync have answered
get_health(q, meta) ==
    LET pending == pending_count(q)
        last_sync == get_last_sync(SyncEngine_new, meta)
    IN  IF pending > HealthThreshold
        THEN SyncHealth_warning(pending)
        ELSE SyncHealth_healthy(last_sync)

\* the journal after n changes have been tracked and none pulled
Backlog(n) ==
    [i \in 1 .. n |-> row_of_change(Change_update(i, 1, JsonObject([email |-> "l"]),
                                                  ThisDevice, 0))]

HealthInit ==
    /\ NoResolverOp
    /\ \E n \in 0 .. MaxBacklog :
          /\ sync_queue = Backlog(n)
          /\ allocated = 1 .. n
    /\ now = 0
    /\ op_result = NoOp
    /\ sess = [s \in Sessions |-> NoRequest]
    /\ sync_metadata = Null
    /\ patients = <<>>
    /\ VectorIdle
    /\ CrdtIdle
    /\ CryptoIdle
    /\ RepoIdle

\* handlers::sync::get_health; db_ok is whether the two reads succeed
GetHealth ==
    /\ \E db_ok \in BOOLEAN :
          op_result' = IF db_ok
                       THEN [op |-> "get_health", ok |-> TRUE,
                             health |-> get_health(sync_queue, sync_metadata)]
                       ELSE [op |-> "get_health", ok |-> FALSE,
                             health |-> SyncHealth_healthy(Null)]
    /\ UNCHANGED <<resolver_vars, sync_queue, allocated, now, sync_metadata, sess, patients,
                   vector_vars, crdt_vars, crypto_vars, repo_vars>>

\* a pull takes the oldest pending change: it is marked synced
PullOne ==
    /\ \E i \in DOMAIN sync_queue :
          /\ sync_queue[i].synced = 0
          /\ \A j \in DOMAIN sync_queue : sync_queue[j].synced = 0 => i <= j
          /\ sync_queue' = mark_synced(sync_queue, <<i>>, 1, now).queue
          /\ op_result' = [op |-> "mark_synced", ok |-> TRUE, ids |-> {i}]
    /\ UNCHANGED <<resolver_vars, allocated, now, sync_metadata, sess, patients,
                   vector_vars, crdt_vars, crypto_vars, repo_vars>>

HealthNext ==
    \/ GetHealth
    \/ PullOne
    \/ SetLastSync

HealthSpec == HealthInit /\ [][HealthNext]_vars

(***************************************************************************)
(* Claims about the resolver, checked under ResolveSpec.                   *)
(***************************************************************************)
Resolved == result # NoResult
BothResolved == result # NoResult /\ peer_result # NoResult
BothUpdates == local.operation = "Update" /\ remote.operation = "Update"
BothObjects == as_object(local.data) /\ as_object(remote.data)
LocalKeys == DOMAIN local.data.fields
RemoteKeys == DOMAIN remote.data.fields

\* C1: delete bias. Whenever the local change is a Delete the resolution is
\* KeepLocal (whatever the remote operation is), and whenever the remote change
\* is a Delete and the local one is not, the resolution is KeepRemote; the
\* timestamps play no part. The same holds on the peer, with the roles swapped.
C1_DeleteBias ==
    /\ Resolved =>
          /\ local.operation = "Delete" => result = KeepLocal
          /\ (remote.operation = "Delete" /\ local.operation # "Delete")
                => result = KeepRemote
    /\ peer_result # NoResult =>
          /\ remote.operation = "Delete" => peer_result = KeepLocal
          /\ (local.operation = "Delete" /\ remote.operation # "Delete")
                => peer_result = KeepRemote

\* a local Delete that is older than the remote Update it meets has been kept
C1_Witness ==
    /\ result = KeepLocal
    /\ local.operation = "Delete"
    /\ remote.operation = "Update"
    /\ remote.timestamp > local.timestamp

\* C2: merge completeness. Two Updates whose object payloads share no top-level
\* key resolve to Merge(c): c.payload has exactly the keys of both payloads, each
\* with its original value, c.timestamp is the larger of the two timestamps,
\* c.origin_device is "<local device>_merged", c.op is Update and c.id is neither
\* input's id.
C2_MergeCompleteness ==
    (Resolved /\ BothUpdates /\ BothObjects /\ LocalKeys \cap RemoteKeys = {}) =>
        /\ result.kind = "Merge"
        /\ as_object(result.change.data)
        /\ DOMAIN result.change.data.fields = LocalKeys \cup RemoteKeys
        /\ \A k \in LocalKeys : result.change.data.fields[k] = local.data.fields[k]
        /\ \A k \in RemoteKeys : result.change.data.fields[k] = remote.data.fields[k]
        /\ result.change.timestamp >= local.timestamp
        /\ result.change.timestamp >= remote.timestamp
        /\ result.change.timestamp \in {local.timestamp, remote.timestamp}
        /\ result.change.device_id = local.device_id \o "_merged"
        /\ result.change.device_id \notin Devices
        /\ result.change.operation = "Update"
        /\ result.change.id \notin {local.id, remote.id}

\* a merge of {phone} (older, local) with {email} (newer, remote) has happened
C2_Witness ==
    /\ result.kind = "Merge"
    /\ LocalKeys = {"phone"}
    /\ RemoteKeys = {"email"}
    /\ remote.timestamp > local.timestamp

\* C3: the version vector of a merged change is the componentwise maximum of the
\* two input vectors: for every device d, c.version.get(d) is the larger of
\* local.version.get(d) and remote.version.get(d).
C3_MergedVersionIsMax ==
    (Resolved /\ result.kind = "Merge") =>
        \A d \in Devices :
            VersionVector_get(result.change.version, d)
                = Max(VersionVector_get(local.version, d),
                      VersionVector_get(remote.version, d))

\* the change a resolution lets survive on the replica that ran it
Survivor(res, l, r) ==
    IF res.kind = "KeepLocal" THEN l
    ELSE IF res.kind = "KeepRemote" THEN r
    ELSE res.change

\* C4: two Updates whose payloads share a top-level key are resolved
\* last-writer-wins: the strictly later change is kept, and on equal timestamps
\* the winner depends on the two origin devices and not on which side is local,
\* so both replicas keep the same change.
C4_LastWriterWins ==
    (BothResolved /\ BothUpdates /\ BothObjects /\ LocalKeys \cap RemoteKeys # {}) =>
        /\ remote.timestamp > local.timestamp => result = KeepRemote
        /\ local.timestamp > remote.timestamp => result = KeepLocal
        /\ (local.timestamp = remote.timestamp /\ local.device_id # remote.device_id)
              => Survivor(result, local, remote).id
                   = Survivor(peer_result, remote, local).id

\* C5: resolution is role-symmetric. The replica that resolves (local, remote)
\* and the replica that resolves (remote, local) end with the same surviving
\* operation and payload, for every pair of operations and timestamps.
C5_RoleSymmetric ==
    (BothResolved /\ local.device_id # remote.device_id) =>
        /\ Survivor(result, local, remote).operation
              = Survivor(peer_result, remote, local).operation
        /\ Survivor(result, local, remote).data
              = Survivor(peer_result, remote, local).data

(***************************************************************************)
(* Claims about the journal, checked under JournalSpec.                    *)
(***************************************************************************)
\* C6: journal append is idempotent on the change id. Appending a change whose id
\* the journal already holds succeeds, and leaves the journal content and the
\* pending count as they were after the first append.
C6_AppendIdempotent ==
    [][(op_result'.op = "queue_change" /\ op_result'.again) =>
          /\ op_result'.ok
          /\ sync_queue' = sync_queue
          /\ pending_count(sync_queue') = pending_count(sync_queue)]_vars

\* C7: an entry's synced flag changes at most once, from false to true. An entry
\* that is synced stays synced for as long as it exists, and marking it again
\* changes nothing about it: its synced_at stays that of the first acknowledgement.
C7_SyncedOnce ==
    [][\A i \in DOMAIN sync_queue \cap DOMAIN sync_queue' :
          sync_queue[i].synced = 1 =>
              /\ sync_queue'[i].synced = 1
              /\ sync_queue'[i].synced_at = sync_queue[i].synced_at]_vars

\* the total order of the journal: timestamp, then origin device, then id
DeviceRank(d) == IF d = "A" THEN 1 ELSE 2
Before(a, b) ==
    \/ a.timestamp < b.timestamp
    \/ /\ a.timestamp = b.timestamp
       /\ \/ DeviceRank(a.device_id) < DeviceRank(b.device_id)
          \/ a.device_id = b.device_id /\ a.id < b.id

\* C8: pending(limit) returns only unsynced entries, at most limit of them, and
\* they are the first limit unsynced entries of the total order (timestamp, then
\* origin device, then id), in that order.
C8_PendingOrder ==
    op_result.op = "get_pending_changes" =>
        LET cs == op_result.changes
            P == {i \in DOMAIN sync_queue : sync_queue[i].synced = 0}
        IN  /\ Len(cs) = Min(op_result.limit, Cardinality(P))
            /\ \A k \in 1 .. Len(cs) :
                  /\ cs[k].id \in P
                  /\ Cardinality({i \in P : Before(change_of_row(sync_queue[i]), cs[k])}) = k - 1

(***************************************************************************)
(* Claims about the engine and the handlers, checked under Spec.           *)
(***************************************************************************)
\* a sync session that has begun and not yet returned
InSession(s) == sess[s].handler \in {"pull", "push"} /\ sess[s].pc \notin {"idle", "done"}
Returned(s) == sess[s].handler \in {"pull", "push"} /\ sess[s].pc = "done"

\* C9: at most one sync session runs at a time. A sync request that arrives while
\* another session is under way does not run beside it: it is refused with
\* SyncInProgress.
C9_OneSyncSession ==
    \A s1, s2 \in Sessions : s1 # s2 => ~(InSession(s1) /\ InSession(s2))

\* C10: the engine state follows Idle -> Syncing -> {Idle | Error | Offline}. When
\* a sync session returns, its engine is in Idle after a success and in Error
\* after a failure that is not a transport failure, such as a journal I/O error; it
\* is never left in Syncing.
C10_StateMachine ==
    \A s \in Sessions :
        Returned(s) =>
            /\ sess[s].outcome = "Ok" => sess[s].engine.state = "Idle"
            /\ sess[s].outcome = "InternalError" => sess[s].engine.state = "Error"
            /\ sess[s].engine.state # "Syncing"

\* C11: a local change is marked synced only if its id is in the acknowledged
\* list of a push response that has been received in full: whenever an entry goes
\* from pending to synced, the session that marked it holds a response whose
\* acknowledged list names the entry.
C11_MarkedOnlyIfAcknowledged ==
    [][\A i \in DOMAIN sync_queue \cap DOMAIN sync_queue' :
          (sync_queue[i].synced = 0 /\ sync_queue'[i].synced = 1) =>
              \E s \in Sessions : i \in Range(sess'[s].response.acknowledged)]_vars

\* C12: last_sync_time is advanced to the server time of a sync response after
\* every change of it has been applied, and only then: a session that applied its
\* changes and returns Ok leaves last_sync_time, persisted and in memory, at that
\* time, and a session that fails leaves both as they were.
C12_LastSyncAfterApply ==
    [][\A s \in Sessions :
          (sess[s].pc = "idle" /\ sess'[s].pc = "done" /\ sess'[s].handler = "push") =>
              IF sess'[s].outcome = "Ok"
              THEN /\ sync_metadata' = now
                   /\ sess'[s].engine.last_sync = now
              ELSE /\ sync_metadata' = sync_metadata
                   /\ sess'[s].engine.last_sync = Null]_vars

\* C13: each track_create / track_update / track_delete call adds exactly one
\* pending row to the journal, and the version of the new change is after the
\* version of every earlier change the same device made to the same entity (the
\* local component of the entity's running vector has been incremented).
C13_TrackedVersionAdvances ==
    [][allocated' # allocated =>
          LET new == DOMAIN sync_queue' \ DOMAIN sync_queue
          IN  /\ Cardinality(new) = 1
              /\ pending_count(sync_queue') = pending_count(sync_queue) + 1
              /\ \A j \in new :
                    /\ sync_queue'[j].synced = 0
                    /\ \A i \in DOMAIN sync_queue :
                          (/\ sync_queue[i].entity_id = sync_queue'[j].entity_id
                           /\ sync_queue[i].entity_type = sync_queue'[j].entity_type
                           /\ sync_queue[i].device_id = sync_queue'[j].device_id)
                          => happens_before(sync_queue[i].version_json.json,
                                            sync_queue'[j].version_json.json)]_vars

PatientMutations ==
    {"create_patient", "update_patient", "delete_patient", "add_allergy", "add_medication"}

\* C14: every patient mutation that reports success has recorded a Change in the
\* journal: the step of a successful create, update, delete, add-allergy or
\* add-medication call adds a journal row for the patient it changed (so a call
\* whose journal append fails does not report success).
C14_MutationRecorded ==
    [][(/\ op_result'.op \in PatientMutations
        /\ op_result'.ok
        /\ (op_result' # op_result \/ patients' # patients)) =>
          \E i \in DOMAIN sync_queue' \ DOMAIN sync_queue :
              sync_queue'[i].entity_id = Uuid_to_string(op_result'.entity_id)]_vars

\* C15: FIFO per origin. Of two changes appended by the same device, the one
\* appended first is handed to the other devices first, also when the pending
\* set is drained over several rounds: whenever a pull is about to hand out its
\* changes, every pending change that the same device appended before one of
\* them (ids are handed out in the order of appending) comes earlier in the list.
C15_FifoPerOrigin ==
    \A s \in Sessions :
        (sess[s].handler = "pull" /\ sess[s].pc = "pull_mark") =>
            LET cs == sess[s].changes
            IN  \A k \in 1 .. Len(cs) : \A i \in DOMAIN sync_queue :
                    (/\ sync_queue[i].synced = 0
                     /\ sync_queue[i].device_id = cs[k].device_id
                     /\ i < cs[k].id)
                    => \E m \in 1 .. (k - 1) : cs[m].id = i

(***************************************************************************)
(* Claims about version vectors, checked under VVSpec.                     *)
(***************************************************************************)
Incremented == vv_out.op \in {"increment", "types_increment"}
Merged == vv_out.op \in {"merge", "types_merge"}

\* C16: increment(d) makes get(d) exactly one larger than it was and leaves
\* get(e) as it was for every other device e; get of a device that has no entry
\* is 0.
C16_IncrementFrame ==
    /\ Incremented =>
          /\ get(vv_out.after, vv_out.device) = get(vv_out.receiver, vv_out.device) + 1
          /\ \A e \in VVDevices \ {vv_out.device} :
                get(vv_out.after, e) = get(vv_out.receiver, e)
    /\ \A d \in VVDevices \ DOMAIN self_vv :
          get(self_vv, d) = 0 /\ VersionVector_get(self_vv, d) = 0

\* C17: merge is the componentwise maximum: after a.merge(b), get(d) is the
\* larger of the old a.get(d) and b.get(d) for every device d; so a.merge(b) and
\* b.merge(a) agree on every get, and a.merge(a) leaves a as it was.
C17_MergeIsMax ==
    Merged =>
        /\ \A d \in VVDevices :
              get(vv_out.after, d) = Max(get(vv_out.receiver, d), get(vv_out.argument, d))
        /\ \A d \in VVDevices :
              get(vv_out.after, d) = get(merge(vv_out.argument, vv_out.receiver), d)
        /\ vv_out.argument = vv_out.receiver => vv_out.after = vv_out.receiver

\* two vectors that are each ahead of the other on one device have been merged
C17_Witness ==
    /\ vv_out.op = "merge"
    /\ get(vv_out.receiver, "d1") > get(vv_out.argument, "d1")
    /\ get(vv_out.argument, "d2") > get(vv_out.receiver, "d2")
    /\ get(vv_out.after, "d1") = get(vv_out.receiver, "d1")
    /\ get(vv_out.after, "d2") = get(vv_out.argument, "d2")

\* C18: a.happens_before(b) is true exactly when every counter of a is <= the
\* counter of b and at least one is strictly less, a missing device counting as
\* 0; so the empty vector is not before itself and is before every vector with a
\* nonzero counter.
C18_HappensBefore ==
    vv_out.op = "happens_before" =>
        /\ vv_out.value <=>
              /\ \A d \in VVDevices : get(vv_out.receiver, d) <= get(vv_out.argument, d)
              /\ \E d \in VVDevices : get(vv_out.receiver, d) < get(vv_out.argument, d)
        /\ (vv_out.receiver = <<>> /\ vv_out.argument = <<>>) => ~vv_out.value
        /\ (vv_out.receiver = <<>> /\ \E d \in VVDevices : get(vv_out.argument, d) > 0)
              => vv_out.value

\* the empty vector has been found to be before a vector with a nonzero counter
C18_Witness ==
    /\ vv_out.op = "happens_before"
    /\ vv_out.receiver = <<>>
    /\ get(vv_out.argument, "d2") > 0
    /\ vv_out.value

\* C19: of the four relations a = b, a happens-before b, b happens-before a and
\* a concurrent with b exactly one holds, with a missing device read as counter
\* 0: two vectors whose counters agree on every device are equal and not
\* concurrent.
C19_ExactlyOneRelation ==
    vv_out.op = "compare" =>
        /\ Cardinality({r \in {"equals", "before", "after", "concurrent"} :
                           vv_out.value[r]}) = 1
        /\ (\A d \in VVDevices : get(vv_out.receiver, d) = get(vv_out.argument, d))
              => (vv_out.value.equals /\ ~vv_out.value.concurrent)

\* C20: incrementing a counter that is at the maximum u64 value returns an error
\* and leaves the vector as it was; the counter never wraps to a smaller value.
C20_IncrementSaturates ==
    (Incremented /\ get(vv_out.receiver, vv_out.device) = U64_MAX) =>
        /\ vv_out.outcome = "error"
        /\ vv_out.after = vv_out.receiver
        /\ get(self_vv, vv_out.device) >= get(vv_out.receiver, vv_out.device)

(***************************************************************************)
(* Claims about the LWW register, checked under LwwSpec.                   *)
(***************************************************************************)
RegisterMerged == crdt_out.op \in {"merge", "lww_merge"}
\* x carries the larger timestamp, or the larger device id on equal timestamps
Later(x, y) ==
    \/ x.timestamp > y.timestamp
    \/ x.timestamp = y.timestamp /\ x.device_id > y.device_id

\* C21: after a.merge(b), a holds the whole triple (value, timestamp, device_id)
\* of the input with the larger timestamp, and on equal timestamps of the input
\* with the larger device id; it is never a mix of the two inputs.
C21_WholeTripleWins ==
    RegisterMerged =>
        /\ crdt_out.after \in {crdt_out.receiver, crdt_out.argument}
        /\ Later(crdt_out.argument, crdt_out.receiver) => crdt_out.after = crdt_out.argument
        /\ Later(crdt_out.receiver, crdt_out.argument) => crdt_out.after = crdt_out.receiver
        /\ crdt_a = crdt_out.after

\* a register has taken the triple of an argument that differs from it in all
\* three fields
C21_Witness ==
    /\ crdt_out.op = "merge"
    /\ crdt_out.argument.timestamp > crdt_out.receiver.timestamp
    /\ crdt_out.argument.device_id < crdt_out.receiver.device_id
    /\ crdt_out.argument.value # crdt_out.receiver.value
    /\ crdt_a = crdt_out.argument

\* C22: LWW-register merge is commutative, associative and idempotent for any
\* register states a, b, c, comparing the full (value, timestamp, device_id)
\* triple: merge(a,b) = merge(b,a), merge(merge(a,b),c) = merge(a,merge(b,c)) and
\* merge(a,a) = a.
C22_RegisterMergeLaws ==
    crdt_out.op \in {"orders", "lww_orders"} =>
        /\ crdt_out.value.ab = crdt_out.value.ba
        /\ crdt_out.value.ab_c = crdt_out.value.a_bc
        /\ crdt_out.value.aa = crdt_out.receiver

(***************************************************************************)
(* Claims about the MV register, checked under MvSpec.                     *)
(***************************************************************************)
\* the entries of either input that carry the largest timestamp of both
LatestOf(S) == {v \in S : \A w \in S : w.timestamp <= v.timestamp}

\* C23: after a.merge(b) on two MV registers, a's value set is exactly the set of
\* triples of either input whose timestamp is the maximum over both inputs: two
\* writes with the same timestamp from different devices both survive
\* (has_conflict is true, get_single is None), and a strictly later write
\* eliminates all earlier ones (get_single returns it).
C23_OnlyLatestSurvive ==
    crdt_out.op \in {"merge", "mv_merge"} =>
        /\ crdt_out.after = LatestOf(crdt_out.receiver \cup crdt_out.argument)
        /\ crdt_a = crdt_out.after
        /\ Cardinality(LatestOf(crdt_out.receiver \cup crdt_out.argument)) > 1
              => (crdt_out.value.has_conflict /\ crdt_out.value.get_single = {})
        /\ \A v \in crdt_out.receiver \cup crdt_out.argument :
              LatestOf(crdt_out.receiver \cup crdt_out.argument) = {v}
                  => /\ ~crdt_out.value.has_conflict
                     /\ crdt_out.op = "merge" => crdt_out.value.get_single = {v.value}

(***************************************************************************)
(* Claims about the OR-List, checked under ListMergeSpec and ListSpec.     *)
(***************************************************************************)
\* C24: OR-List merge keeps, for each element id present in either list, the
\* entry with the larger (timestamp, device_id), and is commutative, associative
\* and idempotent for any list states a, b, c, so replicas that merge the same
\* states in any order hold the same elements with the same value and deleted
\* flag.
C24_ListMergeLaws ==
    /\ crdt_out.op \in {"merge", "list_merge"} =>
          /\ DOMAIN crdt_out.after = DOMAIN crdt_out.receiver \cup DOMAIN crdt_out.argument
          /\ \A id \in DOMAIN crdt_out.receiver \ DOMAIN crdt_out.argument :
                crdt_out.after[id] = crdt_out.receiver[id]
          /\ \A id \in DOMAIN crdt_out.argument \ DOMAIN crdt_out.receiver :
                crdt_out.after[id] = crdt_out.argument[id]
          /\ \A id \in DOMAIN crdt_out.receiver \cap DOMAIN crdt_out.argument :
                /\ Later(crdt_out.argument[id], crdt_out.receiver[id])
                      => crdt_out.after[id] = crdt_out.argument[id]
                /\ Later(crdt_out.receiver[id], crdt_out.argument[id])
                      => crdt_out.after[id] = crdt_out.receiver[id]
    /\ crdt_out.op \in {"orders", "list_orders"} =>
          /\ crdt_out.value.ab = crdt_out.value.ba
          /\ crdt_out.value.ab_c = crdt_out.value.a_bc
          /\ crdt_out.value.aa = crdt_out.receiver

\* a tombstone of `mine` for id that `theirs` holds no entry for, or an entry
\* with a smaller (timestamp, device_id)
TombstoneWins(mine, theirs, id) ==
    /\ id \in DOMAIN mine
    /\ mine[id].deleted
    /\ id \in DOMAIN theirs => Later(mine[id], theirs[id])

C26_RemoveLeavesTombstone ==
    /\ crdt_out.op = "remove" =>
          /\ crdt_out.argument \in DOMAIN crdt_out.after
          /\ crdt_out.after[crdt_out.argument] =
                LwwRegister_new(None, crdt_out.device, crdt_out.at)
          /\ crdt_out.get[crdt_out.argument] = None
          /\ \A other \in {crdt_a, crdt_b} :
                (/\ crdt_out.argument \in DOMAIN other
                 /\ other[crdt_out.argument].timestamp < crdt_out.at)
                    => LwwMap_get(LwwMap_merge(crdt_out.after, other), crdt_out.argument) = None
    /\ crdt_out.op = "merge" =>
          /\ DOMAIN crdt_out.after = DOMAIN crdt_out.receiver \cup DOMAIN crdt_out.argument
          /\ \A k \in DOMAIN crdt_out.receiver \cap DOMAIN crdt_out.argument :
                crdt_out.after[k] =
                    LwwRegister_merge(crdt_out.receiver[k], crdt_out.argument[k])
          /\ \A k \in DOMAIN crdt_out.receiver \ DOMAIN crdt_out.argument :
                crdt_out.after[k] = crdt_out.receiver[k]
          /\ \A k \in DOMAIN crdt_out.argument \ DOMAIN crdt_out.receiver :
                crdt_out.after[k] = crdt_out.argument[k]

(***************************************************************************)
(* Further claims about the journal, checked under JournalSpec.            *)
(***************************************************************************)
\* a step of cleanup_old_changes
CleanupStep == op_result'.op = "cleanup_old_changes" /\ now' = now
\* the entries synced more than RetentionDays before now
Expired ==
    {i \in DOMAIN sync_queue :
        /\ sync_queue[i].synced = 1
        /\ sync_queue[i].synced_at # Null
        /\ now - sync_queue[i].synced_at > RetentionDays}

\* C27: cleanup deletes exactly the journal entries that are synced and whose
\* synced_at is more than 7 days before now, returns their number, and never
\* deletes an unsynced (pending) entry or an entry synced less than 7 days ago;
\* the entries it keeps are as they were.
C27_CleanupExact ==
    [][CleanupStep =>
          /\ DOMAIN sync_queue' = DOMAIN sync_queue \ Expired
          /\ op_result'.ok /\ op_result'.deleted = Cardinality(Expired)
          /\ \A i \in DOMAIN sync_queue :
                (\/ sync_queue[i].synced = 0
                 \/ now - sync_queue[i].synced_at <= RetentionDays)
                    => (i \in DOMAIN sync_queue' /\ sync_queue'[i] = sync_queue[i])]_vars

\* cleanup has deleted an entry and kept one that was synced exactly
\* RetentionDays ago
C27_Witness ==
    /\ op_result.op = "cleanup_old_changes"
    /\ op_result.deleted = 1
    /\ \E i \in DOMAIN sync_queue :
          sync_queue[i].synced = 1 /\ now - sync_queue[i].synced_at = RetentionDays

\* C28: a change's retry_count never exceeds 10: record_error increments it by
\* one and stores the error text without changing synced, but once a change has
\* been rejected 10 times further rejections do not increment it.
C28_RetryCapped ==
    \A i \in DOMAIN sync_queue : sync_queue[i].retry_count <= 10

\* the columns of a row that hold the change
ChangeColumns(r) ==
    <<r.id, r.entity_type, r.entity_id, r.operation, r.data_json, r.timestamp,
      r.device_id, r.version_json>>

\* C29: a journaled change is immutable and read back unchanged. The row a
\* successful append writes reads back as the change appended, with the same id,
\* entity_type, entity_id, operation, payload, timestamp, origin device and
\* version; no step (mark_synced, record_error, cleanup of other entries, a
\* repeated append) changes these columns of a row that stays; and every change
\* pending() returns is the one its row holds.
C29_ChangeImmutable ==
    [][/\ \A i \in DOMAIN sync_queue \cap DOMAIN sync_queue' :
             ChangeColumns(sync_queue'[i]) = ChangeColumns(sync_queue[i])
       /\ (op_result'.op = "queue_change" /\ op_result'.ok) =>
             /\ op_result'.id \in DOMAIN sync_queue'
             /\ change_of_row(sync_queue'[op_result'.id]) = op_result'.change
       /\ op_result'.op = "get_pending_changes" =>
             \A k \in 1 .. Len(op_result'.changes) :
                /\ op_result'.changes[k].id \in DOMAIN sync_queue'
                /\ op_result'.changes[k] =
                      change_of_row(sync_queue'[op_result'.changes[k].id])]_vars

\* pending() has returned a Delete change that was appended on an earlier day
\* and rejected once since, from a journal that also holds a synced entry
C29_Witness ==
    /\ op_result.op = "get_pending_changes"
    /\ \E k \in 1 .. Len(op_result.changes) :
          /\ op_result.changes[k].operation = "Delete"
          /\ op_result.changes[k].timestamp < now
          /\ sync_queue[op_result.changes[k].id].retry_count = 1
    /\ \E i \in DOMAIN sync_queue : sync_queue[i].synced = 1

\* C30: mark_synced over several ids is atomic: if it fails part-way, no id of
\* the batch is marked synced (the journal is as before the call); if it
\* succeeds, every id of the batch that exists in the journal is synced, absent
\* ids are ignored silently, and entries not in the batch are unchanged.
C30_MarkSyncedAtomic ==
    [][op_result'.op = "mark_synced" =>
          /\ ~op_result'.ok => sync_queue' = sync_queue
          /\ op_result'.ok =>
                /\ DOMAIN sync_queue' = DOMAIN sync_queue
                /\ \A i \in DOMAIN sync_queue :
                      /\ i \in op_result'.ids => sync_queue'[i].synced = 1
                      /\ i \notin op_result'.ids => sync_queue'[i] = sync_queue[i]]_vars

(***************************************************************************)
(* Further claims about the resolver, checked under ResolveSpec.           *)
(***************************************************************************)
\* the decision table for the pairs without a Delete and other than two Updates
DecisionTable(res, l, r) ==
    /\ (l.operation = "Create" /\ r.operation = "Create") =>
          res = (IF l.timestamp >= r.timestamp THEN KeepLocal ELSE KeepRemote)
    /\ (l.operation = "Create" /\ r.operation = "Update") => res = KeepRemote
    /\ (l.operation = "Update" /\ r.operation = "Create") => res = KeepLocal
    /\ res.kind \in {"KeepLocal", "KeepRemote", "Merge"}
    /\ res # Conflict

\* C31: for operation pairs without a Delete and other than Update/Update,
\* resolve follows the decision table: Create vs Create is KeepLocal if
\* local.timestamp >= remote.timestamp and KeepRemote otherwise, local Create vs
\* remote Update is KeepRemote, local Update vs remote Create is KeepLocal.
\* resolve returns a result for every pair of operations and never the
\* manual-resolution outcome.
C31_DecisionTable ==
    /\ Resolved => DecisionTable(result, local, remote)
    /\ peer_result # NoResult => DecisionTable(peer_result, remote, local)

\* a local Create that is newer than the remote Update it meets has lost to it,
\* and the peer, holding the Update, has kept it
C31_Witness ==
    /\ local.operation = "Create"
    /\ remote.operation = "Update"
    /\ local.timestamp > remote.timestamp
    /\ result = KeepRemote
    /\ peer_result = KeepLocal

(***************************************************************************)
(* Claims about field encryption, checked under CryptoSpec.                *)
(***************************************************************************)
Encrypted == enc_out.op = "encrypt"
Decrypted == enc_out.op = "decrypt"

C33_MalformedBeforeAuth ==
    (Decrypted /\ enc_out.key.len = KEY_LEN /\ blob.base64) =>
        /\ blob.len < NONCE_LEN + TAG_LEN =>
              enc_out.result = CryptoErr("InvalidFormat")
        /\ (blob.len >= NONCE_LEN + TAG_LEN /\ ~enc_out.result.ok) =>
              enc_out.result = CryptoErr("Decryption failed")

(***************************************************************************)
(* Claims about the patient repository, checked under RepoSpec.            *)
(***************************************************************************)
\* the rows the SQL of a search selects
BaseRows(active_only) == {e \in DOMAIN patients : active_only => patients[e].active = 1}
Decrypts(e) == row_to_patient(e, patients[e], RepoKey).ok
PatientOf(e) == row_to_patient(e, patients[e], RepoKey).value

\* C34: a decryption failure on one stored patient row is not fatal to a
\* list/search or find_by_mrn query: the query still returns successfully with
\* every decryptable matching row, and the undecryptable record is surfaced in
\* the result with a marker value rather than being silently omitted.
C34_CorruptRowSurfaced ==
    /\ repo_out.op = "search" =>
          /\ repo_out.ok
          /\ \A e \in BaseRows(repo_out.active_only) :
                /\ (/\ Decrypts(e)
                    /\ repo_out.query \in {NoMrn, PatientOf(e).medical_record_number})
                      => PatientOf(e) \in repo_out.value
                /\ (~Decrypts(e) /\ repo_out.query = NoMrn)
                      => Marked(e, patients[e]) \in repo_out.value
    /\ repo_out.op = "find_by_mrn" =>
          /\ repo_out.ok
          /\ (\E e \in DOMAIN patients :
                 Decrypts(e) /\ PatientOf(e).medical_record_number = repo_out.query)
                => /\ repo_out.value # NoPatient
                   /\ repo_out.value.medical_record_number = repo_out.query

\* C40: medical record numbers are unique. Under any sequence and interleaving
\* of patient creations and deletions, generate_mrn followed by create never
\* gives a new patient an MRN that an existing patient already has.
C40_MrnUnique ==
    \A e1, e2 \in DOMAIN patients :
        (e1 # e2 /\ Decrypts(e1) /\ Decrypts(e2))
            => PatientOf(e1).medical_record_number # PatientOf(e2).medical_record_number

(***************************************************************************)
(* Claims about the sync handlers, checked under HealthSpec and Spec.      *)
(***************************************************************************)
\* C35: the sync health probe reports status Warning exactly when the journal's
\* pending count is greater than 100 and Healthy when it is 100 or less, and the
\* pending_changes field of the response equals the journal's pending count in
\* both cases.
C35_HealthReportsPending ==
    (op_result.op = "get_health" /\ op_result.ok) =>
        /\ op_result.health.status = "Warning" <=> pending_count(sync_queue) > HealthThreshold
        /\ op_result.health.status = "Healthy" <=> pending_count(sync_queue) <= HealthThreshold
        /\ op_result.health.pending_changes = pending_count(sync_queue)

\* request slot s has just answered a push / a pull
PushAnswered(s) ==
    /\ sess[s].pc = "idle"
    /\ sess'[s].handler = "push"
    /\ sess'[s].pc = "done"
    /\ sess'[s].outcome = "Ok"
PullAnswered(s) ==
    /\ sess[s].pc = "pull_mark"
    /\ sess'[s].pc = "done"
    /\ sess'[s].outcome = "Ok"

\* the ids of the pending rows of a journal
PendingIds(q) == {i \in DOMAIN q : q[i].synced = 0}

\* C36: when apply_remote resolves a remote change against a pending local
\* change and the result is Merge(c), then afterwards the original local change
\* is no longer pending in the journal and the merged change c is pending in its
\* place, so the next push sends c and not the superseded local change.
C36_MergeReplacesPending ==
    [][\A s \in Sessions :
          (PushAnswered(s) /\ sess'[s].response.applied[1].resolution = "Merge") =>
              LET done == sess'[s].response.applied[1]
              IN  /\ done.against \notin PendingIds(sync_queue')
                  /\ \E i \in PendingIds(sync_queue') :
                        change_of_row(sync_queue'[i]) = done.to_db[1]]_vars

\* C37: apply_remote never applies a remote change directly while a pending
\* local change for the same (entity_type, entity_id) exists: the resolver is
\* invoked whenever any such pending change exists, however many other changes
\* are pending, and when several pending local changes target that entity none
\* of them is left unconsidered.
C37_EveryPendingConsidered ==
    [][\A s \in Sessions :
          PushAnswered(s) =>
              LET done == sess'[s].response.applied[1]
                  matching == {i \in PendingIds(sync_queue) :
                                  /\ change_of_row(sync_queue[i]).entity_id = done.entity_id
                                  /\ sync_queue[i].entity_type = "Patient"}
              IN  /\ matching # {} => done.resolution # "Direct"
                  /\ \A i \in matching : done.against = i]_vars

\* C38: the pull handler marks every change it returns as synced at the time it
\* builds the response, without waiting for a client acknowledgement: a change
\* returned by one pull is not returned by any later pull, and the set of
\* changes returned equals the set marked synced by that call.
C38_ReturnedIsMarked ==
    [][\A s \in Sessions :
          PullAnswered(s) =>
              LET returned == {c.id : c \in Range(sess'[s].response.changes)}
                  marked == {i \in DOMAIN sync_queue :
                                sync_queue[i].synced = 0 /\ sync_queue'[i].synced = 1}
              IN  /\ returned = marked
                  /\ \A i \in returned : sync_queue'[i].synced = 1]_vars

\* a push that has answered
PushDone(s) == sess[s].handler = "push" /\ sess[s].pc = "done" /\ sess[s].outcome = "Ok"

\* C39: in every push response the acknowledged and rejected lists partition the
\* pushed changes: each pushed change id appears in exactly one of them, every
\* rejected entry's change_id is the id of a pushed change, and a change is
\* acknowledged iff applying it did not end in an unresolved conflict.
C39_AckRejectPartition ==
    \A s \in Sessions :
        PushDone(s) =>
            LET applied == sess[s].response.applied
                pushed == {applied[k].id : k \in DOMAIN applied}
                acknowledged == Range(sess[s].response.acknowledged)
                rejected == Range(sess[s].response.rejected)
            IN  /\ acknowledged \cup rejected = pushed
                /\ acknowledged \cap rejected = {}
                /\ rejected \subseteq pushed
                /\ \A k \in DOMAIN applied :
                      applied[k].id \in acknowledged <=> applied[k].resolution # "Conflict"

\* a pushed change that met a pending local change of its entity, was resolved
\* against it and acknowledged
C39_Witness ==
    \E s \in Sessions :
        /\ PushDone(s)
        /\ sess[s].response.applied[1].resolution \in {"KeepLocal", "KeepRemote", "Merge"}
        /\ sess[s].response.acknowledged = <<sess[s].response.applied[1].id>>
        /\ sess[s].response.rejected = <<>>

====
